---- MODULE Spec2Model ----
(***************************************************************************)
(* Classification cache, override stores and transaction processing of     *)
(* src/lib/transaction-utils.ts (class TransactionUtils), over the         *)
(* browser's localStorage; the statement parsers and upload endpoints of   *)
(* src/app/api/process-pdf/route.ts and                                    *)
(* src/app/api/upload-statements/process/route.ts; and the merchants and   *)
(* anzsic_mappings collections of src/unnamed/part_000.                    *)
(*                                                                         *)
(* Time is counted in hours.  The input transactions are those of         *)
(* SampleTransactions, told apart by id.  Optional string fields hold      *)
(* Undef when absent; the optional number aiConfidence is {} when absent   *)
(* and {n} when present.  Texts are strings, read character by character;  *)
(* decimal amounts are counted in cents.                                   *)
(***************************************************************************)
EXTENDS Integers, Sequences, FiniteSets, TLC

VARIABLES localStorage, now, classifier, last,
          merchants, anzsic_mappings, uniqueIndex, creating

(* the two reference collections, their unique indexes and the create calls
   in flight *)
serverVars == <<merchants, anzsic_mappings, uniqueIndex, creating>>

vars == <<localStorage, now, classifier, last, serverVars>>

----------------------------------------------------------------------------
(* Bounds *)

MaxNow == 49

(* the elapsed times a clock step may add, in hours *)
TickSteps == {24, 25}

----------------------------------------------------------------------------
(* Values *)

(* localStorage.getItem gives null for an absent key: an item is <<>> when
   absent and <<text>> when present *)
NoItem == <<>>
Item(text) == <<text>>
TextOf(stored) == stored[1]

Undef == "undefined"

CatVehicles == "Vehicles, Travel & Transport"
CatHomeOffice == "Home Office Expenses"

DEDUCTION_CATEGORIES == {CatVehicles, CatHomeOffice}

Keys == {"manual_overrides", "category_overrides", "deduction_toggles",
         "classification_cache", "user_profile"}

EmptyMap == [k \in {} |-> TRUE]

(* the unclassified input transactions: an outflow without a category and an
   inflow with one *)
SampleTransactions ==
    <<[id |-> 1, amount |-> -50, category |-> Undef,
       deductionType |-> Undef, keywordUsed |-> Undef, aiConfidence |-> {}],
      [id |-> 2, amount |-> 30, category |-> "Groceries",
       deductionType |-> Undef, keywordUsed |-> Undef, aiConfidence |-> {}]>>

TxIds == {SampleTransactions[i].id : i \in DOMAIN SampleTransactions}

TxOf(id) ==
    SampleTransactions[CHOOSE i \in DOMAIN SampleTransactions :
                          SampleTransactions[i].id = id]

(* all maps from a subset of D to R *)
Maps(D, R) == UNION {[S -> R] : S \in SUBSET D}

(* Object.prototype.hasOwnProperty *)
hasOwnProperty(m, k) == k \in DOMAIN m

(* JSON.stringify of a map object: its members as key/value pairs *)
JsonStringify(m) == {<<k, m[k]>> : k \in DOMAIN m}

(* JSON.parse of such a text: the object with these members *)
JsonParse(s) ==
    [k \in {p[1] : p \in s} |-> (CHOOSE p \in s : p[1] = k)[2]]

(* x || dflt for a string-valued x *)
OrElse(x, dflt) == IF x = Undef \/ x = "" THEN dflt ELSE x

Abs(n) == IF n < 0 THEN -n ELSE n

(* Number.parseFloat(amount.toString()) || 0 for a finite number *)
ParseAmount(a) == IF a = 0 THEN 0 ELSE a

----------------------------------------------------------------------------
(* Override stores and deduction toggles *)

getManualOverrides(ls) ==
    LET stored == ls["manual_overrides"]
    IN  IF stored # NoItem THEN JsonParse(TextOf(stored)) ELSE EmptyMap

(* the save with the key of the other store *)
saveManualOverridesWrongKey(ls, overrides) ==
    [ls EXCEPT !["category_overrides"] = Item(JsonStringify(overrides))]

saveManualOverrides(ls, overrides) ==
    [ls EXCEPT !["manual_overrides"] = Item(JsonStringify(overrides))]

getCategoryOverrides(ls) ==
    LET stored == ls["category_overrides"]
    IN  IF stored # NoItem THEN JsonParse(TextOf(stored)) ELSE EmptyMap

saveCategoryOverrides(ls, overrides) ==
    [ls EXCEPT !["category_overrides"] = Item(JsonStringify(overrides))]

saveCategoryForTransaction(ls, transactionId, category) ==
    LET overrides == getCategoryOverrides(ls)
        updated == [k \in DOMAIN overrides \cup {transactionId} |->
                       IF k = transactionId THEN category ELSE overrides[k]]
    IN  saveCategoryOverrides(ls, updated)

saveDeductionToggles(ls, toggles) ==
    [ls EXCEPT !["deduction_toggles"] = Item(JsonStringify(toggles))]

(* profile.onboarding?.deductionTypes || [] of the stored user profile;
   the profile is stored as the list of its onboarding deduction types *)
OnboardingTypes(ls) ==
    IF ls["user_profile"] = NoItem THEN <<>> ELSE TextOf(ls["user_profile"])

Range(s) == {s[i] : i \in DOMAIN s}

(* With an empty selection the code searches the other localStorage keys for
   arrays of category names; none of the keys this program writes holds
   one, so the search finds nothing and the selection stays empty. *)
initializeFromOnboarding(selectedTypes) ==
    [category \in DEDUCTION_CATEGORIES |-> category \in Range(selectedTypes)]

(* returns the toggles and the storage as the call leaves it *)
getDeductionToggles(ls) ==
    LET stored == ls["deduction_toggles"]
        selectedTypes == OnboardingTypes(ls)
        initialToggles == initializeFromOnboarding(selectedTypes)
    IN  IF stored # NoItem
        THEN LET storedToggles == JsonParse(TextOf(stored))
                 hasOnboardingData == Len(selectedTypes) > 0
                 needsSync == hasOnboardingData
                              /\ Cardinality(DOMAIN storedToggles) = 0
             IN  IF needsSync
                 THEN [ret |-> initialToggles,
                       ls |-> saveDeductionToggles(ls, initialToggles)]
                 ELSE [ret |-> storedToggles, ls |-> ls]
        ELSE [ret |-> initialToggles,
              ls |-> saveDeductionToggles(ls, initialToggles)]

----------------------------------------------------------------------------
(* Transactions *)

(* lists of ids, pairwise distinct (loadAllTransactions removes duplicate ids
   before it calls processTransactions) *)
Batches ==
    {b \in UNION {[1..n -> TxIds] : n \in 0..Cardinality(TxIds)} :
        \A i, j \in DOMAIN b : i # j => b[i] # b[j]}

TxList(b) == [i \in DOMAIN b |-> TxOf(b[i])]

Ids(txs) == {txs[i].id : i \in DOMAIN txs}

RECURSIVE SelectSeq2(_, _)
(* Array.prototype.filter with the set of ids to keep *)
SelectSeq2(txs, keep) ==
    IF txs = <<>> THEN <<>>
    ELSE LET rest == SelectSeq2(Tail(txs), keep)
         IN  IF Head(txs).id \in keep THEN <<Head(txs)>> \o rest ELSE rest

----------------------------------------------------------------------------
(* Classification cache *)

(* 24 * 60 * 60 * 1000 ms, in hours *)
maxAge == 24

OptionalStrings == {"deductionType", "classificationSource", "keywordUsed"}

(* one element of cacheData.transactions as JSON.stringify writes it: a
   property whose value is undefined is left out of the text *)
CacheEntryText(t) ==
    LET entry == [id |-> t.id,
                  isBusinessExpense |-> t.isBusinessExpense,
                  deductionAmount |-> t.deductionAmount,
                  deductionType |-> t.deductionType,
                  autoClassified |-> t.autoClassified,
                  classificationSource |-> t.classificationSource,
                  aiConfidence |-> t.aiConfidence,
                  keywordUsed |-> t.keywordUsed]
        present == {f \in DOMAIN entry :
                      IF f \in OptionalStrings THEN entry[f] # Undef
                      ELSE IF f = "aiConfidence" THEN entry[f] # {}
                      ELSE TRUE}
    IN  [f \in present |->
           IF f = "aiConfidence" THEN CHOOSE n \in entry[f] : TRUE
           ELSE entry[f]]

(* reading a property of a parsed object *)
StrProp(o, f) == IF f \in DOMAIN o THEN o[f] ELSE Undef
NumProp(o, f) == IF f \in DOMAIN o THEN {o[f]} ELSE {}

(* the save that keeps the stored entries of other ids *)
saveClassificationCacheMerge(ls, transactions, t) ==
    LET old == IF ls["classification_cache"] = NoItem THEN <<>>
               ELSE TextOf(ls["classification_cache"]).transactions
        new == [i \in DOMAIN transactions |->
                   CacheEntryText(transactions[i])]
        newIds == {new[i].id : i \in DOMAIN new}
        kept == SelectSeq2(old, {old[i].id : i \in DOMAIN old} \ newIds)
    IN  [ls EXCEPT !["classification_cache"] =
            Item([timestamp |-> t, transactions |-> kept \o new])]

saveClassificationCache(ls, transactions, t) ==
    LET cacheData == [timestamp |-> t,
                      transactions |->
                          [i \in DOMAIN transactions |->
                              CacheEntryText(transactions[i])]]
    IN  [ls EXCEPT !["classification_cache"] = Item(cacheData)]

(* the load without the age test *)
loadClassificationCacheNoExpiry(ls, t) ==
    LET cached == ls["classification_cache"]
    IN  IF cached = NoItem
        THEN [isNull |-> TRUE, map |-> EmptyMap, ls |-> ls]
        ELSE LET entries == TextOf(cached).transactions
                 idsIn == {entries[i].id : i \in DOMAIN entries}
                 lastOf(id) == CHOOSE i \in DOMAIN entries :
                                  /\ entries[i].id = id
                                  /\ \A j \in DOMAIN entries :
                                        entries[j].id = id => j <= i
             IN  [isNull |-> FALSE,
                  map |-> [id \in idsIn |-> entries[lastOf(id)]],
                  ls |-> ls]

(* returns isNull (the call returned null), the cache map by id, and the
   storage as the call leaves it *)
loadClassificationCache(ls, t) ==
    LET cached == ls["classification_cache"]
    IN  IF cached = NoItem
        THEN [isNull |-> TRUE, map |-> EmptyMap, ls |-> ls]
        ELSE LET cacheData == TextOf(cached)
                 cacheAge == t - cacheData.timestamp
                 entries == cacheData.transactions
                 idsIn == {entries[i].id : i \in DOMAIN entries}
                 lastOf(id) == CHOOSE i \in DOMAIN entries :
                                  /\ entries[i].id = id
                                  /\ \A j \in DOMAIN entries :
                                        entries[j].id = id => j <= i
             IN  IF cacheAge > maxAge
                 THEN [isNull |-> TRUE, map |-> EmptyMap,
                       ls |-> [ls EXCEPT !["classification_cache"] = NoItem]]
                 ELSE [isNull |-> FALSE,
                       map |-> [id \in idsIn |-> entries[lastOf(id)]],
                       ls |-> ls]

----------------------------------------------------------------------------
(* The classifier service, SimpleAIClassificationService.classifyTransactions.
   Its behaviour at a given time is a value of Classifiers: whether a call
   throws, and what it says about each transaction id: "none" (no result for
   the id) or "deductible" (a result in the vehicles category). *)

Options == {"none", "deductible"}

Classifiers == [throws : BOOLEAN, opt : [TxIds -> Options]]

(* the results by id (resultsMap); a transaction is flagged deductible only
   under a category of enabledCategories *)
SimpleAIClassify(answer, toClassify, enabledCategories) ==
    LET answered == {id \in Ids(toClassify) : answer.opt[id] # "none"}
    IN  [id \in answered |->
           [id |-> id,
            isDeductible |-> CatVehicles \in enabledCategories,
            atoCategory |-> CatVehicles,
            confidence |-> 90,
            source |-> "ai",
            keywordUsed |-> "fuel"]]

----------------------------------------------------------------------------
(* Classification *)

(* the element pushed to results for a cache hit *)
CacheHit(transaction, cached) ==
    [id |-> transaction.id,
     amount |-> transaction.amount,
     isBusinessExpense |-> cached.isBusinessExpense,
     deductionAmount |-> cached.deductionAmount,
     deductionType |-> StrProp(cached, "deductionType"),
     autoClassified |-> TRUE,
     classificationSource |-> StrProp(cached, "classificationSource"),
     aiConfidence |-> NumProp(cached, "aiConfidence"),
     keywordUsed |-> StrProp(cached, "keywordUsed"),
     category |-> OrElse(StrProp(cached, "deductionType"),
                         OrElse(transaction.category, "Other"))]

(* the element with the deduction amount taken without the outflow test *)
ClassifiedAnySign(transaction, result) ==
    LET amount == ParseAmount(transaction.amount)
        deductionAmount == IF result.isDeductible THEN Abs(amount) ELSE 0
    IN  [id |-> transaction.id,
         amount |-> transaction.amount,
         isBusinessExpense |-> result.isDeductible,
         deductionAmount |-> deductionAmount,
         deductionType |-> result.atoCategory,
         autoClassified |-> TRUE,
         aiConfidence |-> {result.confidence},
         classificationSource |-> result.source,
         keywordUsed |-> result.keywordUsed,
         category |-> OrElse(result.atoCategory,
                             OrElse(transaction.category, "Other"))]

(* the element of newlyClassified for a transaction the classifier answered *)
Classified(transaction, result) ==
    LET amount == ParseAmount(transaction.amount)
        deductionAmount == IF result.isDeductible /\ amount < 0
                           THEN Abs(amount) ELSE 0
    IN  [id |-> transaction.id,
         amount |-> transaction.amount,
         isBusinessExpense |-> result.isDeductible,
         deductionAmount |-> deductionAmount,
         deductionType |-> result.atoCategory,
         autoClassified |-> TRUE,
         aiConfidence |-> {result.confidence},
         classificationSource |-> result.source,
         keywordUsed |-> result.keywordUsed,
         category |-> OrElse(result.atoCategory,
                             OrElse(transaction.category, "Other"))]

(* the element of newlyClassified for a transaction without a result *)
Fallback(transaction) ==
    [id |-> transaction.id,
     amount |-> transaction.amount,
     isBusinessExpense |-> FALSE,
     deductionAmount |-> 0,
     deductionType |-> transaction.deductionType,
     autoClassified |-> TRUE,
     classificationSource |-> "fallback",
     aiConfidence |-> {0},
     keywordUsed |-> transaction.keywordUsed,
     category |-> transaction.category]

(* results.push(...newlyClassified) at the front instead of the back *)
PushFront(results, newlyClassified) == newlyClassified \o results

(* results.push(...newlyClassified) *)
Push(results, newlyClassified) == results \o newlyClassified

(* cached && cached.classificationSource *)
IsCacheHit(cache, transaction) ==
    /\ transaction.id \in DOMAIN cache.map
    /\ OrElse(StrProp(cache.map[transaction.id], "classificationSource"),
              "") # ""

(* returns threw (the awaited classifier call rejected), ret (the returned
   list), hits (ids served from the cache), sent (the list given to the
   classifier) and the storage as the call leaves it *)
classifyTransactions(ls, transactions, enabledDeductionTypes, t, answer) ==
    LET cache == loadClassificationCache(ls, t)
        hits == {transactions[i].id : i \in
                    {j \in DOMAIN transactions :
                        IsCacheHit(cache, transactions[j])}}
        hitList == SelectSeq2(transactions, hits)
        results == [i \in DOMAIN hitList |->
                       CacheHit(hitList[i], cache.map[hitList[i].id])]
        needsClassification ==
            SelectSeq2(transactions, Ids(transactions) \ hits)
        enabledCategories == {type \in DOMAIN enabledDeductionTypes :
                                 enabledDeductionTypes[type]}
        resultsMap ==
            SimpleAIClassify(answer, needsClassification, enabledCategories)
        newlyClassified ==
            [i \in DOMAIN needsClassification |->
               IF needsClassification[i].id \in DOMAIN resultsMap
               THEN Classified(needsClassification[i],
                               resultsMap[needsClassification[i].id])
               ELSE Fallback(needsClassification[i])]
        all == IF Len(needsClassification) > 0
               THEN Push(results, newlyClassified) ELSE results
    IN  IF Len(needsClassification) > 0 /\ answer.throws
        THEN [threw |-> TRUE, ret |-> <<>>, hits |-> hits,
              sent |-> needsClassification, ls |-> cache.ls]
        ELSE [threw |-> FALSE, ret |-> all, hits |-> hits,
              sent |-> needsClassification,
              ls |-> saveClassificationCache(cache.ls, all, t)]

(* the overrides applied with the manual flag taking precedence *)
applyManualFirst(transaction, manualOverrides, categoryOverrides) ==
    LET hasManualOverride == hasOwnProperty(manualOverrides, transaction.id)
        hasCategoryOverride ==
            hasOwnProperty(categoryOverrides, transaction.id)
        isBusinessExpense ==
            IF hasManualOverride THEN manualOverrides[transaction.id]
            ELSE hasCategoryOverride
        deductionType ==
            IF hasCategoryOverride THEN categoryOverrides[transaction.id]
            ELSE Undef
        amount == ParseAmount(transaction.amount)
        deductionAmount == IF isBusinessExpense /\ amount < 0
                           THEN Abs(amount) ELSE 0
    IN  [id |-> transaction.id,
         amount |-> transaction.amount,
         isBusinessExpense |-> isBusinessExpense,
         deductionAmount |-> deductionAmount,
         deductionType |-> deductionType,
         category |-> OrElse(deductionType,
                             OrElse(transaction.category, "Other")),
         autoClassified |-> FALSE,
         classificationSource |-> "manual",
         aiConfidence |-> transaction.aiConfidence,
         keywordUsed |-> transaction.keywordUsed]

applyManualOverrides(transaction, manualOverrides, categoryOverrides) ==
    LET hasManualOverride == hasOwnProperty(manualOverrides, transaction.id)
        hasCategoryOverride ==
            hasOwnProperty(categoryOverrides, transaction.id)
        isBusinessExpense ==
            IF hasCategoryOverride THEN TRUE
            ELSE IF hasManualOverride THEN manualOverrides[transaction.id]
            ELSE FALSE
        deductionType ==
            IF hasCategoryOverride THEN categoryOverrides[transaction.id]
            ELSE Undef
        amount == ParseAmount(transaction.amount)
        deductionAmount == IF isBusinessExpense /\ amount < 0
                           THEN Abs(amount) ELSE 0
    IN  [id |-> transaction.id,
         amount |-> transaction.amount,
         isBusinessExpense |-> isBusinessExpense,
         deductionAmount |-> deductionAmount,
         deductionType |-> deductionType,
         category |-> OrElse(deductionType,
                             OrElse(transaction.category, "Other")),
         autoClassified |-> FALSE,
         classificationSource |-> "manual",
         aiConfidence |-> transaction.aiConfidence,
         keywordUsed |-> transaction.keywordUsed]

(* the filter with the category overrides forgotten *)
NeedingAIManualOnly(transactions, manualOverrides, categoryOverrides) ==
    SelectSeq2(transactions,
               {id \in Ids(transactions) :
                   ~hasOwnProperty(manualOverrides, id)})

(* transactions.filter(t => !manualOverrides.hasOwnProperty(t.id) &&
                            !categoryOverrides.hasOwnProperty(t.id)) *)
NeedingAI(transactions, manualOverrides, categoryOverrides) ==
    SelectSeq2(transactions,
               {id \in Ids(transactions) :
                   /\ ~hasOwnProperty(manualOverrides, id)
                   /\ ~hasOwnProperty(categoryOverrides, id)})

(* returns ret (the returned list), the overrides and toggles the call read,
   called (classifyTransactions was called), needing (the list given to it),
   ai (what it returned) and the storage as the call leaves it *)
processTransactions(ls, transactions, useAI, t, answer) ==
    LET manualOverrides == getManualOverrides(ls)
        toggles == getDeductionToggles(ls)
        deductionToggles == toggles.ret
        categoryOverrides == getCategoryOverrides(toggles.ls)
        transactionsNeedingAI ==
            NeedingAI(transactions, manualOverrides, categoryOverrides)
        called == useAI /\ Len(transactions) > 0
                  /\ Len(transactionsNeedingAI) > 0
        ai == classifyTransactions(toggles.ls, transactionsNeedingAI,
                                   deductionToggles, t, answer)
        aiIds == Ids(ai.ret)
        aiResult(id) == ai.ret[CHOOSE i \in DOMAIN ai.ret :
                                   /\ ai.ret[i].id = id
                                   /\ \A j \in DOMAIN ai.ret :
                                         ai.ret[j].id = id => j <= i]
        overridden == [i \in DOMAIN transactions |->
                          applyManualOverrides(transactions[i],
                              manualOverrides, categoryOverrides)]
        merged == [i \in DOMAIN transactions |->
                      IF transactions[i].id \in aiIds
                      THEN aiResult(transactions[i].id)
                      ELSE overridden[i]]
    IN  [ret |-> IF called /\ ~ai.threw THEN merged ELSE overridden,
         manualOverrides |-> manualOverrides,
         categoryOverrides |-> categoryOverrides,
         deductionToggles |-> deductionToggles,
         called |-> called,
         needing |-> transactionsNeedingAI,
         ai |-> IF called THEN ai
                ELSE [threw |-> FALSE, ret |-> <<>>, hits |-> {},
                      sent |-> <<>>, ls |-> toggles.ls],
         ls |-> IF called THEN ai.ls ELSE toggles.ls]

----------------------------------------------------------------------------
(* State machine.  last records the latest call: its name, its arguments,
   what it returned and, for processTransactions, the time of the call. *)

Profiles == {NoItem, Item(<<CatVehicles>>)}

(* the processes that call create concurrently *)
Procs == {1, 2}

Collections == {"merchants", "anzsic_mappings"}

Idle == [pc |-> "idle"]

(* a fresh database: no document, no index, no call in flight *)
EmptyDatabase ==
    /\ merchants = <<>>
    /\ anzsic_mappings = <<>>
    /\ uniqueIndex = [c \in Collections |-> FALSE]
    /\ creating = [p \in Procs |-> Idle]

InitWith(profiles) ==
    /\ EmptyDatabase
    /\ \E profile \in profiles :
          localStorage = [k \in Keys |->
                             IF k = "user_profile" THEN profile ELSE NoItem]
    /\ now = 0
    /\ classifier = [throws |-> FALSE, opt |-> [i \in TxIds |-> "deductible"]]
    /\ last = [op |-> "init"]

(* what a load keeps of the call before it: its name, and the map it saved *)
Before(call) ==
    IF call.op \in {"saveManualOverrides", "saveCategoryOverrides",
                    "saveDeductionToggles"}
    THEN [op |-> call.op, arg |-> call.arg]
    ELSE [op |-> call.op]

SaveManualOverrides(m) ==
    /\ localStorage' = saveManualOverrides(localStorage, m)
    /\ last' = [op |-> "saveManualOverrides", arg |-> m]
    /\ UNCHANGED <<now, classifier, serverVars>>

GetManualOverrides ==
    /\ last' = [op |-> "getManualOverrides",
                ret |-> getManualOverrides(localStorage),
                after |-> Before(last)]
    /\ UNCHANGED <<localStorage, now, classifier, serverVars>>

SaveCategoryOverrides(m) ==
    /\ localStorage' = saveCategoryOverrides(localStorage, m)
    /\ last' = [op |-> "saveCategoryOverrides", arg |-> m]
    /\ UNCHANGED <<now, classifier, serverVars>>

GetCategoryOverrides ==
    /\ last' = [op |-> "getCategoryOverrides",
                ret |-> getCategoryOverrides(localStorage),
                after |-> Before(last)]
    /\ UNCHANGED <<localStorage, now, classifier, serverVars>>

SaveCategoryForTransaction(transactionId, category) ==
    /\ localStorage' =
          saveCategoryForTransaction(localStorage, transactionId, category)
    /\ last' = [op |-> "saveCategoryForTransaction",
                id |-> transactionId, category |-> category]
    /\ UNCHANGED <<now, classifier, serverVars>>

SaveDeductionToggles(m) ==
    /\ localStorage' = saveDeductionToggles(localStorage, m)
    /\ last' = [op |-> "saveDeductionToggles", arg |-> m]
    /\ UNCHANGED <<now, classifier, serverVars>>

GetDeductionToggles ==
    \E got \in {getDeductionToggles(localStorage)} :
        /\ localStorage' = got.ls
        /\ last' = [op |-> "getDeductionToggles", ret |-> got.ret,
                    after |-> Before(last)]
        /\ UNCHANGED <<now, classifier, serverVars>>

(* the stored snapshot is older than maxAge at time t *)
Expired(ls, t) ==
    /\ ls["classification_cache"] # NoItem
    /\ t - TextOf(ls["classification_cache"]).timestamp > maxAge

(* the ids of the stored snapshot's entries *)
CachedIds(ls) ==
    IF ls["classification_cache"] = NoItem THEN {}
    ELSE LET entries == TextOf(ls["classification_cache"]).transactions
         IN  {entries[i].id : i \in DOMAIN entries}

LoadClassificationCache ==
    \E got \in {loadClassificationCache(localStorage, now)} :
        /\ localStorage' = got.ls
        /\ last' = [op |-> "loadClassificationCache",
                    isNull |-> got.isNull, map |-> got.map,
                    expired |-> Expired(localStorage, now)]
        /\ UNCHANGED <<now, classifier, serverVars>>

ProcessTransactions(b, useAI) ==
    \E got \in {processTransactions(localStorage, TxList(b), useAI, now,
                                     classifier)} :
        /\ localStorage' = got.ls
        /\ last' = [op |-> "processTransactions",
                    at |-> now,
                    transactions |-> TxList(b),
                    ret |-> got.ret,
                    manualOverrides |-> got.manualOverrides,
                    categoryOverrides |-> got.categoryOverrides,
                    deductionToggles |-> got.deductionToggles,
                    called |-> got.called,
                    needing |-> got.needing,
                    threw |-> got.ai.threw,
                    hits |-> got.ai.hits,
                    sent |-> got.ai.sent,
                    classified |-> got.ai.ret,
                    expired |-> Expired(localStorage, now),
                    cachedBefore |-> CachedIds(localStorage)]
        /\ UNCHANGED <<now, classifier, serverVars>>

(* the classifier service changes its behaviour *)
ClassifierChanges(c) ==
    /\ classifier' = c
    /\ UNCHANGED <<localStorage, now, last, serverVars>>

(* the clock advances *)
Tick(dt) ==
    /\ now + dt <= MaxNow
    /\ now' = now + dt
    /\ UNCHANGED <<localStorage, classifier, last, serverVars>>

----------------------------------------------------------------------------
(* Spec: classification with the cache, the clock and the toggles *)

ToggleMaps == [DEDUCTION_CATEGORIES -> BOOLEAN] \cup {EmptyMap}

Init == InitWith({Item(<<CatVehicles>>)})

Next ==
    \/ \E m \in ToggleMaps : SaveDeductionToggles(m)
    \/ LoadClassificationCache
    \/ \E b \in Batches : ProcessTransactions(b, TRUE)
    \/ \E c \in Classifiers : ClassifierChanges(c)
    \/ \E dt \in TickSteps : Tick(dt)

Spec == Init /\ [][Next]_vars

----------------------------------------------------------------------------
(* SpecOverrides: classification with the manual and category overrides *)

ManualMaps == Maps(TxIds, BOOLEAN)

NextOverrides ==
    \/ \E m \in ManualMaps : SaveManualOverrides(m)
    \/ SaveCategoryOverrides(EmptyMap)
    \/ \E id \in TxIds : SaveCategoryForTransaction(id, CatHomeOffice)
    \/ \E b \in Batches, useAI \in BOOLEAN : ProcessTransactions(b, useAI)
    \/ \E c \in Classifiers : ClassifierChanges(c)

SpecOverrides == Init /\ [][NextOverrides]_vars

----------------------------------------------------------------------------
(* SpecStores: the three stores, saved and loaded *)

CategoryMaps == Maps(TxIds, DEDUCTION_CATEGORIES)

InitStores == InitWith(Profiles)

NextStores ==
    \/ \E m \in ManualMaps : SaveManualOverrides(m)
    \/ \E m \in CategoryMaps : SaveCategoryOverrides(m)
    \/ \E id \in TxIds, c \in DEDUCTION_CATEGORIES :
          SaveCategoryForTransaction(id, c)
    \/ \E m \in Maps(DEDUCTION_CATEGORIES, BOOLEAN) : SaveDeductionToggles(m)
    \/ GetManualOverrides
    \/ GetCategoryOverrides
    \/ GetDeductionToggles

SpecStores == InitStores /\ [][NextStores]_vars

----------------------------------------------------------------------------
(* Properties of processTransactions under the overrides (SpecOverrides) *)

Processed == last.op = "processTransactions"

HasOverride(id) ==
    \/ hasOwnProperty(getManualOverrides(localStorage), id)
    \/ hasOwnProperty(getCategoryOverrides(localStorage), id)

(* the stored cache entries for id *)
CacheEntriesFor(id) ==
    IF localStorage["classification_cache"] = NoItem THEN {}
    ELSE LET entries == TextOf(localStorage["classification_cache"]).transactions
         IN  {entries[i] : i \in {j \in DOMAIN entries : entries[j].id = id}}

(* C1: processTransactions returns one result per input transaction, and the
   result of every transaction whose id has a manual or a category override
   comes from the override alone: classificationSource "manual",
   autoClassified false, and deductible exactly when a category override
   exists or the manual override says true; the cache and the classifier
   have no say. *)
C1_OverrideWins ==
    Processed =>
        /\ Len(last.ret) = Len(last.transactions)
        /\ \A i \in DOMAIN last.transactions :
              LET id == last.transactions[i].id
                  mo == getManualOverrides(localStorage)
                  co == getCategoryOverrides(localStorage)
              IN  HasOverride(id) =>
                    /\ last.ret[i].id = id
                    /\ last.ret[i].classificationSource = "manual"
                    /\ last.ret[i].autoClassified = FALSE
                    /\ last.ret[i].isBusinessExpense =
                          (\/ hasOwnProperty(co, id)
                           \/ (hasOwnProperty(mo, id) /\ mo[id]))

(* a processed transaction whose manual override says false while the cache
   holds a deductible decision for its id and the classifier would flag it *)
C1_Witness ==
    /\ Processed
    /\ \E i \in DOMAIN last.transactions :
          LET id == last.transactions[i].id
              mo == getManualOverrides(localStorage)
          IN  /\ hasOwnProperty(mo, id) /\ ~mo[id]
              /\ ~hasOwnProperty(getCategoryOverrides(localStorage), id)
              /\ \E e \in CacheEntriesFor(id) : e.isBusinessExpense
              /\ classifier.opt[id] = "deductible" /\ ~classifier.throws
              /\ ~last.ret[i].isBusinessExpense

(* C4: every transaction processTransactions returns has deductionAmount =
   abs(amount) when it is flagged a business expense and amount < 0, and
   deductionAmount = 0 otherwise. *)
C4_DeductionAmount ==
    Processed =>
        \A i \in DOMAIN last.ret :
            LET r == last.ret[i]
            IN  r.deductionAmount =
                   IF r.isBusinessExpense /\ r.amount < 0
                   THEN Abs(r.amount) ELSE 0

(* one call that returns a cache hit with a positive deduction amount next
   to a deductible inflow whose deduction amount is 0 *)
C4_Witness ==
    /\ Processed
    /\ \E i, j \in DOMAIN last.ret :
          /\ last.ret[i].id \in last.hits
          /\ last.ret[i].deductionAmount > 0
          /\ last.ret[j].isBusinessExpense
          /\ last.ret[j].amount > 0
          /\ last.ret[j].deductionAmount = 0

(* C6: when the classifier call fails, processTransactions still returns one
   result per input transaction, and every transaction without an override
   comes back with classificationSource "fallback" and not deductible. *)
C6_FallbackOnFailure ==
    (Processed /\ last.threw) =>
        /\ Len(last.ret) = Len(last.transactions)
        /\ \A i \in DOMAIN last.transactions :
              ~HasOverride(last.transactions[i].id) =>
                  /\ last.ret[i].classificationSource = "fallback"
                  /\ ~last.ret[i].isBusinessExpense

(* C10: a transaction with a category override comes back deductible with
   deductionType and category set to the override category, whatever its
   manual override says; a transaction with a manual override only comes
   back with that boolean as isBusinessExpense and with its own category,
   or "Other" when it has none. *)
C10_OverridePrecedence ==
    Processed =>
        \A i \in DOMAIN last.transactions :
            LET t == last.transactions[i]
                mo == getManualOverrides(localStorage)
                co == getCategoryOverrides(localStorage)
                r == last.ret[i]
            IN  /\ hasOwnProperty(co, t.id) =>
                      /\ r.isBusinessExpense
                      /\ r.deductionType = co[t.id]
                      /\ r.category = co[t.id]
                /\ (hasOwnProperty(mo, t.id) /\ ~hasOwnProperty(co, t.id)) =>
                      /\ r.isBusinessExpense = mo[t.id]
                      /\ r.category =
                            IF t.category = Undef THEN "Other" ELSE t.category

(* one call that returns a transaction with a category override and a manual
   override of false, and a transaction with a manual override only *)
C10_Witness ==
    /\ Processed
    /\ \E i, j \in DOMAIN last.transactions :
          LET mo == getManualOverrides(localStorage)
              co == getCategoryOverrides(localStorage)
              a == last.transactions[i].id
              b == last.transactions[j].id
          IN  /\ hasOwnProperty(co, a) /\ hasOwnProperty(mo, a) /\ ~mo[a]
              /\ last.ret[i].isBusinessExpense
              /\ hasOwnProperty(mo, b) /\ ~hasOwnProperty(co, b)

----------------------------------------------------------------------------
(* Properties of the stores (SpecStores).  A load records in last.after the
   call that came before it. *)

LoadedAfterSave(load, save) ==
    /\ last.op = load
    /\ last.after.op = save

(* C3 as claimed: a save followed by the load of the same store returns the
   saved map, for each of the three stores, every map and every profile. *)
C3_RoundTrip ==
    /\ LoadedAfterSave("getManualOverrides", "saveManualOverrides") =>
          last.ret = last.after.arg
    /\ LoadedAfterSave("getCategoryOverrides", "saveCategoryOverrides") =>
          last.ret = last.after.arg
    /\ LoadedAfterSave("getDeductionToggles", "saveDeductionToggles") =>
          last.ret = last.after.arg

(* C3: a save followed by the load of the same store returns the saved map
   for the manual and the category overrides; for the deduction toggles it
   returns the saved map unless that map is empty while the profile holds
   onboarding deduction types, and then it returns, and stores, the toggles
   initialised from the onboarding types. *)
C3_RoundTripUnlessSync ==
    /\ LoadedAfterSave("getManualOverrides", "saveManualOverrides") =>
          last.ret = last.after.arg
    /\ LoadedAfterSave("getCategoryOverrides", "saveCategoryOverrides") =>
          last.ret = last.after.arg
    /\ LoadedAfterSave("getDeductionToggles", "saveDeductionToggles") =>
          IF last.after.arg = EmptyMap /\ Len(OnboardingTypes(localStorage)) > 0
          THEN /\ last.ret = [c \in DEDUCTION_CATEGORIES |->
                                 c \in Range(OnboardingTypes(localStorage))]
               /\ localStorage["deduction_toggles"] =
                     Item(JsonStringify(last.ret))
          ELSE last.ret = last.after.arg

(* the manual overrides loaded right after a save of a map with a false
   member *)
C3_Witness ==
    /\ LoadedAfterSave("getManualOverrides", "saveManualOverrides")
    /\ \E id \in DOMAIN last.after.arg : ~last.after.arg[id]
    /\ last.ret = last.after.arg

----------------------------------------------------------------------------
(* Properties of classification with the cache (Spec, SpecOverrides) *)

ClassifyCompleted == Processed /\ last.called /\ ~last.threw

IdsOf(txs) == [i \in DOMAIN txs |-> txs[i].id]

(* C2: a stored snapshot stamped more than maxAge before the call is never
   used: loadClassificationCache returns null and leaves no snapshot in the
   storage; in processTransactions no transaction is a cache hit, the whole
   list given to classifyTransactions goes to the classifier, and the
   storage afterwards holds no snapshot or the one written by this call. *)
C2_ExpiredNeverUsed ==
    /\ (last.op = "loadClassificationCache" /\ last.expired) =>
          /\ last.isNull
          /\ DOMAIN last.map = {}
          /\ localStorage["classification_cache"] = NoItem
    /\ (Processed /\ last.called /\ last.expired) =>
          /\ last.hits = {}
          /\ last.sent = last.needing
          /\ IF last.threw
             THEN localStorage["classification_cache"] = NoItem
             ELSE TextOf(localStorage["classification_cache"]).timestamp
                     = last.at

(* a call that met an expired snapshot holding an id of its list *)
C2_Witness ==
    /\ ClassifyCompleted
    /\ last.expired
    /\ last.cachedBefore \cap Ids(last.needing) # {}

(* C5: a second processTransactions call right after a first, on the same
   list, with the same overrides, toggles and classifier and at the same
   time, returns the same results. *)
C5_Idempotent ==
    [][(/\ Processed
        /\ last'.op = "processTransactions"
        /\ last'.transactions = last.transactions
        /\ last'.manualOverrides = last.manualOverrides
        /\ last'.categoryOverrides = last.categoryOverrides
        /\ last'.deductionToggles = last.deductionToggles
        /\ classifier' = classifier
        /\ now' = now)
       => last'.ret = last.ret]_vars

(* C7: every returned transaction that is auto-classified and flagged
   deductible has a deductionType switched on in the toggles the call
   read. *)
C7_DeductibleOnlyIfToggledOn ==
    Processed =>
        \A i \in DOMAIN last.ret :
            (last.ret[i].autoClassified /\ last.ret[i].isBusinessExpense) =>
                /\ hasOwnProperty(last.deductionToggles,
                                  last.ret[i].deductionType)
                /\ last.deductionToggles[last.ret[i].deductionType]

(* C8: after classifyTransactions completes, the stored snapshot holds
   exactly one entry per transaction id of its list and no other entry. *)
C8_FullReplacement ==
    ClassifyCompleted =>
        /\ localStorage["classification_cache"] # NoItem
        /\ LET entries ==
                  TextOf(localStorage["classification_cache"]).transactions
           IN  /\ Len(entries) = Len(last.needing)
               /\ \A id \in Ids(last.needing) :
                     Cardinality({i \in DOMAIN entries :
                                     entries[i].id = id}) = 1
               /\ CachedIds(localStorage) = Ids(last.needing)

(* a completed call with a cache hit, while the snapshot before it held an
   id outside its list *)
C8_Witness ==
    /\ ClassifyCompleted
    /\ last.hits # {}
    /\ last.cachedBefore \ Ids(last.needing) # {}

(* C9 as claimed: classifyTransactions returns a list of the length of its
   input, in the order of its input. *)
C9_ClassifyKeepsInputOrder ==
    ClassifyCompleted =>
        /\ Len(last.classified) = Len(last.needing)
        /\ IdsOf(last.classified) = IdsOf(last.needing)

(* C9: classifyTransactions returns a list of the length of its input that
   holds the cache hits first, in input order, then the freshly classified
   transactions, in input order; processTransactions returns its
   transactions in the order of its input list. *)
C9_HitsThenFresh ==
    /\ ClassifyCompleted =>
          /\ Len(last.classified) = Len(last.needing)
          /\ IdsOf(last.classified) =
                IdsOf(SelectSeq2(last.needing, last.hits))
                \o IdsOf(SelectSeq2(last.needing,
                                    Ids(last.needing) \ last.hits))
    /\ Processed => IdsOf(last.ret) = IdsOf(last.transactions)

(* a completed call whose list starts with a fresh transaction followed by
   a cache hit, so that the returned list is not in input order *)
C9_Witness ==
    /\ ClassifyCompleted
    /\ Len(last.needing) > 1
    /\ last.needing[1].id \notin last.hits
    /\ last.needing[2].id \in last.hits
    /\ IdsOf(last.classified) # IdsOf(last.needing)

----------------------------------------------------------------------------
(* Strings, as JavaScript's String methods and regular expressions read
   them.  The texts of the model hold ASCII letters, digits, punctuation,
   blanks, tabs, carriage returns and newlines. *)

Ch(s, i) == SubSeq(s, i, i)

From(s, i) == SubSeq(s, i, Len(s))

DigitChars == "0123456789"
UpperCase == "ABCDEFGHIJKLMNOPQRSTUVWXYZ"
LowerCase == "abcdefghijklmnopqrstuvwxyz"

CharsOf(s) == {Ch(s, i) : i \in 1..Len(s)}

Digits == CharsOf(DigitChars)
UpperLetters == CharsOf(UpperCase)
LowerLetters == CharsOf(LowerCase)
Letters == UpperLetters \cup LowerLetters

(* \d, \s, \w and the characters "." does not match *)
isDigit(c) == c \in Digits
isSpace(c) == c \in {" ", "\t", "\n", "\r"}
isLetter(c) == c \in Letters
isWordChar(c) == isLetter(c) \/ isDigit(c) \/ c = "_"
isLineTerminator(c) == c \in {"\n", "\r"}

PositionIn(s, c) == CHOOSE i \in 1..Len(s) : Ch(s, i) = c

DigitValue(c) == PositionIn(DigitChars, c) - 1

LowerOf == [c \in UpperLetters |-> Ch(LowerCase, PositionIn(UpperCase, c))]
UpperOf == [c \in LowerLetters |-> Ch(UpperCase, PositionIn(LowerCase, c))]

lowerChar(c) == IF c \in UpperLetters THEN LowerOf[c] ELSE c

upperChar(c) == IF c \in LowerLetters THEN UpperOf[c] ELSE c

RECURSIVE toLowerCase(_)
toLowerCase(s) ==
    IF s = "" THEN "" ELSE lowerChar(Ch(s, 1)) \o toLowerCase(Tail(s))

RECURSIVE toUpperCase(_)
toUpperCase(s) ==
    IF s = "" THEN "" ELSE upperChar(Ch(s, 1)) \o toUpperCase(Tail(s))

(* sub occurs in s at position i *)
StartsWithAt(s, i, sub) ==
    /\ i >= 1
    /\ i + Len(sub) - 1 <= Len(s)
    /\ SubSeq(s, i, i + Len(sub) - 1) = sub

includes(s, sub) == \E i \in 1..(Len(s) + 1) : StartsWithAt(s, i, sub)

(* String.prototype.trim *)
RECURSIVE trimStart(_)
trimStart(s) ==
    IF s # "" /\ isSpace(Ch(s, 1)) THEN trimStart(Tail(s)) ELSE s

RECURSIVE trimEnd(_)
trimEnd(s) ==
    IF s # "" /\ isSpace(Ch(s, Len(s)))
    THEN trimEnd(SubSeq(s, 1, Len(s) - 1))
    ELSE s

trim(s) == trimEnd(trimStart(s))

(* String.prototype.padStart(2, "0") *)
padStart2(s) == IF Len(s) < 2 THEN "0" \o s ELSE s

(* the position of the first newline of s, 0 when there is none *)
FirstNewline(s) ==
    IF \E i \in 1..Len(s) : Ch(s, i) = "\n"
    THEN CHOOSE i \in 1..Len(s) :
            /\ Ch(s, i) = "\n"
            /\ \A j \in 1..(i - 1) : Ch(s, j) # "\n"
    ELSE 0

(* text.split("\n") *)
RECURSIVE splitNewline(_)
splitNewline(s) ==
    IF FirstNewline(s) = 0 THEN <<s>>
    ELSE <<SubSeq(s, 1, FirstNewline(s) - 1)>>
         \o splitNewline(From(s, FirstNewline(s) + 1))

(* text.split(/\r?\n/): a carriage return right before the newline belongs
   to the separator *)
dropCR(line, closed) ==
    IF closed /\ line # "" /\ Ch(line, Len(line)) = "\r"
    THEN SubSeq(line, 1, Len(line) - 1)
    ELSE line

RECURSIVE splitCRLF(_)
splitCRLF(s) ==
    IF FirstNewline(s) = 0 THEN <<s>>
    ELSE <<dropCR(SubSeq(s, 1, FirstNewline(s) - 1), TRUE)>>
         \o splitCRLF(From(s, FirstNewline(s) + 1))

Map(f(_), seq) == [i \in DOMAIN seq |-> f(seq[i])]

NonEmpty(s) == s # ""

(* the length of the run of blanks, of non-blanks, of digits and of digits
   and commas that starts at position i of s: what a greedy \s, \S, \d or
   [\d,] repetition takes there *)
RECURSIVE spaceRun(_, _)
spaceRun(s, i) ==
    IF i <= Len(s) /\ isSpace(Ch(s, i)) THEN 1 + spaceRun(s, i + 1) ELSE 0

RECURSIVE nonSpaceRun(_, _)
nonSpaceRun(s, i) ==
    IF i <= Len(s) /\ ~isSpace(Ch(s, i)) THEN 1 + nonSpaceRun(s, i + 1)
    ELSE 0

RECURSIVE digitRun(_, _)
digitRun(s, i) ==
    IF i <= Len(s) /\ isDigit(Ch(s, i)) THEN 1 + digitRun(s, i + 1) ELSE 0

RECURSIVE digitCommaRun(_, _)
digitCommaRun(s, i) ==
    IF i <= Len(s) /\ (isDigit(Ch(s, i)) \/ Ch(s, i) = ",")
    THEN 1 + digitCommaRun(s, i + 1)
    ELSE 0

(* str.split(/\s+/) without the empty pieces a leading or trailing blank
   gives: the maximal runs of non-blank characters *)
RECURSIVE Words(_)
Words(s) ==
    IF trimStart(s) = "" THEN <<>>
    ELSE <<SubSeq(trimStart(s), 1, nonSpaceRun(trimStart(s), 1))>>
         \o Words(From(trimStart(s), nonSpaceRun(trimStart(s), 1) + 1))

(* s.replace(/,/g, "") *)
RECURSIVE removeCommas(_)
removeCommas(s) ==
    IF s = "" THEN ""
    ELSE (IF Ch(s, 1) = "," THEN "" ELSE Ch(s, 1)) \o removeCommas(Tail(s))

RECURSIVE parseDigits(_)
parseDigits(s) ==
    IF s = "" THEN 0
    ELSE 10 * parseDigits(SubSeq(s, 1, Len(s) - 1))
         + DigitValue(Ch(s, Len(s)))

(* Number.parseFloat of -?\d*\.\d\d, in cents *)
parseFloatCents(s) ==
    IF s # "" /\ Ch(s, 1) = "-"
    THEN -(100 * parseDigits(SubSeq(s, 2, Len(s) - 3))
           + parseDigits(SubSeq(s, Len(s) - 1, Len(s))))
    ELSE 100 * parseDigits(SubSeq(s, 1, Len(s) - 3))
         + parseDigits(SubSeq(s, Len(s) - 1, Len(s)))

(* ^\d+$ *)
allDigits(s) == s # "" /\ \A i \in 1..Len(s) : isDigit(Ch(s, i))

(* ^-?\d+\.\d{2}$ *)
isSignedAmount(s) ==
    LET body == IF s # "" /\ Ch(s, 1) = "-" THEN Tail(s) ELSE s
    IN  /\ Len(body) >= 4
        /\ allDigits(SubSeq(body, 1, Len(body) - 3))
        /\ Ch(body, Len(body) - 2) = "."
        /\ allDigits(SubSeq(body, Len(body) - 1, Len(body)))

(* lines.join("\n") *)
RECURSIVE joinLines(_)
joinLines(lines) ==
    IF lines = <<>> THEN ""
    ELSE IF Len(lines) = 1 THEN lines[1]
    ELSE lines[1] \o "\n" \o joinLines(Tail(lines))

----------------------------------------------------------------------------
(* The statement parsers of src/app/api/process-pdf/route.ts.  uuidv4()
   gives each record an identifier of its own: the model takes the position
   in the text of the line, or of the match, that opened the record. *)

Min(a, b) == IF a < b THEN a ELSE b

MinOf(S) == CHOOSE x \in S : \A y \in S : x <= y

MaxOf(S) == CHOOSE x \in S : \A y \in S : x >= y

(* text.split(...).map((line) => line.trim()).filter(Boolean) *)
amexLines(text) == SelectSeq([i \in DOMAIN splitNewline(text) |->
                                 trim(splitNewline(text)[i])], NonEmpty)

trimmedLines(text) == SelectSeq([i \in DOMAIN splitCRLF(text) |->
                                    trim(splitCRLF(text)[i])], NonEmpty)

MonthNames == <<"January", "February", "March", "April", "May", "June",
                "July", "August", "September", "October", "November",
                "December">>

(* monthMap: "January" -> "01", ... *)
monthNumber(k) == IF k < 10 THEN "0" \o Ch(DigitChars, k + 1)
                  ELSE "1" \o Ch(DigitChars, k - 9)

isMonthName(s) == \E k \in DOMAIN MonthNames : MonthNames[k] = s

monthMap(s) == monthNumber(CHOOSE k \in DOMAIN MonthNames : MonthNames[k] = s)

(* dateLinePattern: ^(January|...|December)\s+(\d{1,2})$ *)
amexDateMonths(line) ==
    {k \in DOMAIN MonthNames :
        /\ StartsWithAt(line, 1, MonthNames[k])
        /\ spaceRun(line, Len(MonthNames[k]) + 1) >= 1
        /\ LET day == From(line, Len(MonthNames[k]) + 1
                                 + spaceRun(line, Len(MonthNames[k]) + 1))
           IN  Len(day) \in {1, 2} /\ allDigits(day)}

isAmexDateLine(line) == amexDateMonths(line) # {}

amexDateStr(line) ==
    LET k == CHOOSE m \in amexDateMonths(line) : TRUE
        day == From(line, Len(MonthNames[k]) + 1
                          + spaceRun(line, Len(MonthNames[k]) + 1))
    IN  "2025-" \o monthMap(MonthNames[k]) \o "-" \o padStart2(day)

(* the look-ahead of parseAmex: the offsets j, at most lookahead, of the
   lines after the description line d that are bare amounts *)
amexLookahead == 3

amexAmountOffsets(lines, d, lookahead) ==
    {j \in 1..Min(lookahead, Len(lines) - d) : isSignedAmount(lines[d + j])}

RECURSIVE amexScan(_, _, _, _)
amexScan(lines, i, transactions, lookahead) ==
    IF i > Len(lines) THEN transactions
    ELSE IF ~isAmexDateLine(lines[i])
    THEN amexScan(lines, i + 1, transactions, lookahead)
    ELSE IF i + 1 > Len(lines) THEN transactions
    ELSE LET d == i + 1
             offsets == amexAmountOffsets(lines, d, lookahead)
             j == IF offsets = {} THEN 0 ELSE MinOf(offsets)
             amount == IF offsets = {} THEN 0
                       ELSE Abs(parseFloatCents(lines[d + j]))
             emitted == IF amount > 0
                        THEN <<[id |-> i,
                                date |-> amexDateStr(lines[i]),
                                description |-> lines[d],
                                amount |-> amount,
                                type |-> "debit"]>>
                        ELSE <<>>
         IN  amexScan(lines, d + j + 1, transactions \o emitted, lookahead)

parseAmexLookingFurther(text) == amexScan(amexLines(text), 1, <<>>, 4)

parseAmex(text) == amexScan(amexLines(text), 1, <<>>, amexLookahead)

(* ---- ANZ ---- *)

(* \d{2}/\d{2}/\d{4} at position i *)
isSlashDateAt(s, i) ==
    /\ i + 9 <= Len(s)
    /\ \A k \in {0, 1, 3, 4, 6, 7, 8, 9} : isDigit(Ch(s, i + k))
    /\ Ch(s, i + 2) = "/"
    /\ Ch(s, i + 5) = "/"

(* \$?([\d,]+\.\d{2}) at position i: the length it takes, 0 when it does
   not match; the amount starts after the dollar sign *)
dollarLength(s, i) == IF i <= Len(s) /\ Ch(s, i) = "$" THEN 1 ELSE 0

moneyLength(s, i) ==
    LET a == i + dollarLength(s, i)
        n == digitCommaRun(s, a)
    IN  IF /\ n >= 1
           /\ a + n + 2 <= Len(s)
           /\ Ch(s, a + n) = "."
           /\ isDigit(Ch(s, a + n + 1))
           /\ isDigit(Ch(s, a + n + 2))
        THEN dollarLength(s, i) + n + 3
        ELSE 0

moneyText(s, i) ==
    SubSeq(s, i + dollarLength(s, i), i + moneyLength(s, i) - 1)

(* (CR)?\s+\$?([\d,]+\.\d{2}) after the blanks that follow the amount, which
   ended before position ae; cr is the position after those blanks.  The
   result is the position after the match, and whether CR was there; end is
   0 when there is no match *)
anzBalance(s, ae, cr, afterCR) ==
    IF /\ StartsWithAt(s, cr, "CR")
       /\ afterCR > cr + 2
       /\ moneyLength(s, afterCR) > 0
    THEN [end |-> afterCR + moneyLength(s, afterCR), credit |-> TRUE]
    ELSE IF cr > ae /\ moneyLength(s, cr) > 0
    THEN [end |-> cr + moneyLength(s, cr), credit |-> FALSE]
    ELSE [end |-> 0, credit |-> FALSE]

anzAfterAmount(s, ae, cr) ==
    anzBalance(s, ae, cr, cr + 2 + spaceRun(s, cr + 2))

(* \$?([\d,]+\.\d{2})\s*(CR)?\s+\$?([\d,]+\.\d{2}) at position a *)
anzTail(s, a) ==
    IF moneyLength(s, a) = 0 THEN [end |-> 0, credit |-> FALSE]
    ELSE anzAfterAmount(s, a + moneyLength(s, a),
                        a + moneyLength(s, a)
                          + spaceRun(s, a + moneyLength(s, a)))

(* the characters from position i on that are no line terminators: what
   "." can take there *)
RECURSIVE lineRun(_, _)
lineRun(s, i) ==
    IF i <= Len(s) /\ ~isLineTerminator(Ch(s, i)) THEN 1 + lineRun(s, i + 1)
    ELSE 0

(* (.*?)\s+ and the tail, for a description that starts at position st: the
   ends e (the description is s[st..e-1], without a line terminator) after
   which blanks and the tail follow *)
anzDescriptionEnds(s, st) ==
    {e \in st..(st + lineRun(s, st)) :
        /\ spaceRun(s, e) >= 1
        /\ anzTail(s, e + spaceRun(s, e)).end > 0}

NoMatch == [found |-> FALSE]

(* the match that starts at p, with the transaction date at q, the card
   number at c, the given description and the amount at a *)
anzFields(s, p, q, c, description, a) ==
    [found |-> TRUE, at |-> p,
     processed |-> SubSeq(s, p, p + 9),
     transaction |-> SubSeq(s, q, q + 9),
     card |-> SubSeq(s, c, c + 3),
     description |-> description,
     amount |-> moneyText(s, a),
     credit |-> anzTail(s, a).credit,
     end |-> anzTail(s, a).end]

anzFieldsUpTo(s, p, q, c, st, e) ==
    anzFields(s, p, q, c, SubSeq(s, st, e - 1), e + spaceRun(s, e))

(* the blanks after the card number are taken greedily and the description
   lazily, from position st; least is the least length of a description,
   0 for (.*?) and 1 for (.+?).  When no description that starts after all
   the blanks leads to a match, the blanks are given back one by one: the
   description is then empty (least 0, two blanks or more right before the
   amount) or the last of the given-back blanks that is no line terminator
   and leaves a blank after it (least 1) *)
givenBack(s, c, st) ==
    {k \in (c + 5)..(st - 2) : ~isLineTerminator(Ch(s, k))}

anzFromDescription(s, p, q, c, st, least) ==
    IF anzDescriptionEnds(s, st) # {}
    THEN anzFieldsUpTo(s, p, q, c, st, MinOf(anzDescriptionEnds(s, st)))
    ELSE IF anzTail(s, st).end = 0 THEN NoMatch
    ELSE IF least = 0 /\ st >= c + 6
    THEN anzFields(s, p, q, c, "", st)
    ELSE IF least = 1 /\ givenBack(s, c, st) # {}
    THEN anzFields(s, p, q, c, Ch(s, MaxOf(givenBack(s, c, st))), st)
    ELSE NoMatch

(* (\d{4})\s+ at position c *)
anzFromCard(s, p, q, c, least) ==
    IF /\ c + 3 <= Len(s)
       /\ \A k \in 0..3 : isDigit(Ch(s, c + k))
       /\ spaceRun(s, c + 4) >= 1
    THEN anzFromDescription(s, p, q, c, c + 4 + spaceRun(s, c + 4), least)
    ELSE NoMatch

(* (\d{2}/\d{2}/\d{4})\s+ at position q *)
anzFromTransactionDate(s, p, q, least) ==
    IF isSlashDateAt(s, q) /\ spaceRun(s, q + 10) >= 1
    THEN anzFromCard(s, p, q, q + 10 + spaceRun(s, q + 10), least)
    ELSE NoMatch

(* the pattern of parseAnz at position p *)
anzMatchAt(s, p, least) ==
    IF isSlashDateAt(s, p) /\ spaceRun(s, p + 10) >= 1
    THEN anzFromTransactionDate(s, p, p + 10 + spaceRun(s, p + 10), least)
    ELSE NoMatch

(* pattern.exec(text) in a loop, the pattern being global: the matches from
   left to right, each search starting where the match before ended *)
RECURSIVE anzMatches(_, _, _)
anzMatchesWith(s, p, least, m) ==
    IF m.found THEN <<m>> \o anzMatches(s, m.end, least)
    ELSE anzMatches(s, p + 1, least)

anzMatches(s, p, least) ==
    IF p > Len(s) THEN <<>>
    ELSE anzMatchesWith(s, p, least, anzMatchAt(s, p, least))

(* rawDate.split("/") read as day, month, year: `${year}-${month}-${day}` *)
slashDateToIso(rawDate) ==
    SubSeq(rawDate, 7, 10) \o "-" \o SubSeq(rawDate, 4, 5) \o "-"
        \o SubSeq(rawDate, 1, 2)

anzTransactionIgnoringCR(m) ==
    [id |-> m.at,
     date |-> slashDateToIso(m.transaction),
     description |-> trim(m.description),
     amount |-> parseFloatCents(removeCommas(m.amount))]

anzTransaction(m) ==
    [id |-> m.at,
     date |-> slashDateToIso(m.transaction),
     description |-> trim(m.description),
     amount |-> IF m.credit THEN -parseFloatCents(removeCommas(m.amount))
                ELSE parseFloatCents(removeCommas(m.amount))]

RECURSIVE anzTransactions(_)
anzTransactions(found) ==
    IF found = <<>> THEN <<>>
    ELSE <<anzTransaction(Head(found))>> \o anzTransactions(Tail(found))

parseAnz(text) == anzTransactions(anzMatches(text, 1, 0))

(* ---- CBA ---- *)

RECURSIVE letterRun(_, _)
letterRun(s, i) ==
    IF i <= Len(s) /\ isLetter(Ch(s, i)) THEN 1 + letterRun(s, i + 1) ELSE 0

(* /^(\d{1,2})\s+([A-Za-z]+)\s*(\d{4})?/ on a line: the day takes two digits
   when blanks follow them and one digit when blanks follow it *)
cbaDayLength(line) ==
    IF digitRun(line, 1) >= 2 /\ spaceRun(line, 3) >= 1 THEN 2
    ELSE IF digitRun(line, 1) >= 1 /\ spaceRun(line, 2) >= 1 THEN 1
    ELSE 0

cbaDateMatch(line) ==
    LET n == cbaDayLength(line)
        m == n + 1 + spaceRun(line, n + 1)
        y == m + letterRun(line, m) + spaceRun(line, m + letterRun(line, m))
    IN  IF n = 0 \/ letterRun(line, m) = 0 THEN NoMatch
        ELSE [found |-> TRUE,
              day |-> SubSeq(line, 1, n),
              month |-> SubSeq(line, m, m + letterRun(line, m) - 1),
              year |-> IF digitRun(line, y) >= 4
                       THEN SubSeq(line, y, y + 3) ELSE Undef]

cbaDate(line) ==
    LET m == cbaDateMatch(line)
    IN  IF ~m.found THEN ""
        ELSE (IF m.year = Undef THEN "2022" ELSE m.year) \o "-"
             \o (IF isMonthName(m.month) THEN monthMap(m.month) ELSE "01")
             \o "-" \o padStart2(m.day)

isBalanceLine(line) ==
    includes(line, "OPENING BALANCE") \/ includes(line, "CLOSING BALANCE")

RECURSIVE cbaScan(_, _)
cbaScan(lines, i) ==
    IF i > Len(lines) THEN <<>>
    ELSE (IF isBalanceLine(lines[i])
          THEN <<[id |-> i,
                  date |-> cbaDate(lines[i]),
                  description |-> IF includes(lines[i], "OPENING")
                                  THEN "OPENING BALANCE"
                                  ELSE "CLOSING BALANCE",
                  amount |-> 0]>>
          ELSE <<>>)
         \o cbaScan(lines, i + 1)

parseCba(text) == cbaScan(trimmedLines(text), 1)

(* ---- Westpac ---- *)

(* dateRegex /^(\d{2}\/\d{2}\/\d{2,4})/: the length of the date that opens
   the line, 0 when none does *)
westpacDateLength(line) ==
    IF /\ Len(line) >= 8
       /\ \A k \in {1, 2, 4, 5, 7, 8} : isDigit(Ch(line, k))
       /\ Ch(line, 3) = "/"
       /\ Ch(line, 6) = "/"
    THEN 6 + Min(4, digitRun(line, 7))
    ELSE 0

isWestpacDateLine(line) == westpacDateLength(line) > 0

(* description.match(/[\d,]+\.\d{2}/g): the matches from left to right *)
RECURSIVE amountTokens(_, _)
amountTokens(s, p) ==
    IF p > Len(s) THEN <<>>
    ELSE IF moneyLength(s, p) > 0 /\ dollarLength(s, p) = 0
    THEN <<SubSeq(s, p, p + moneyLength(s, p) - 1)>>
         \o amountTokens(s, p + moneyLength(s, p))
    ELSE amountTokens(s, p + 1)

(* text.replace(/[\d,]+\.\d{2}/g, "") *)
RECURSIVE removeAmountTokens(_, _)
removeAmountTokens(s, p) ==
    IF p > Len(s) THEN ""
    ELSE IF moneyLength(s, p) > 0 /\ dollarLength(s, p) = 0
    THEN removeAmountTokens(s, p + moneyLength(s, p))
    ELSE Ch(s, p) \o removeAmountTokens(s, p + 1)

(* \b at position p of s: between the characters p-1 and p exactly one is a
   word character *)
wordBoundary(s, p) ==
    (p > 1 /\ isWordChar(Ch(s, p - 1))) # (p <= Len(s) /\ isWordChar(Ch(s, p)))

(* text.replace(/\b\d+\b/g, "") *)
RECURSIVE removeStandaloneNumbers(_, _)
removeStandaloneNumbers(s, p) ==
    IF p > Len(s) THEN ""
    ELSE IF /\ digitRun(s, p) > 0
            /\ wordBoundary(s, p)
            /\ wordBoundary(s, p + digitRun(s, p))
    THEN removeStandaloneNumbers(s, p + digitRun(s, p))
    ELSE Ch(s, p) \o removeStandaloneNumbers(s, p + 1)

(* text.replace(/\s+/g, " ") *)
RECURSIVE collapseSpaces(_, _)
collapseSpaces(s, p) ==
    IF p > Len(s) THEN ""
    ELSE IF spaceRun(s, p) > 0
    THEN " " \o collapseSpaces(s, p + spaceRun(s, p))
    ELSE Ch(s, p) \o collapseSpaces(s, p + 1)

cleanDescription(text) ==
    trim(collapseSpaces(
            removeStandaloneNumbers(removeAmountTokens(text, 1), 1), 1))

(* dateStr.split("/") *)
RECURSIVE splitSlash(_)
splitSlash(s) ==
    IF \E i \in 1..Len(s) : Ch(s, i) = "/"
    THEN LET i == MinOf({k \in 1..Len(s) : Ch(s, k) = "/"})
         IN  <<SubSeq(s, 1, i - 1)>> \o splitSlash(From(s, i + 1))
    ELSE <<s>>

normalizeDate(dateStr) ==
    LET parts == splitSlash(dateStr)
        year == IF Len(parts[3]) = 2 THEN "20" \o parts[3] ELSE parts[3]
    IN  year \o "-" \o padStart2(parts[2]) \o "-" \o padStart2(parts[1])

(* the lines after line i up to the next date line *)
RECURSIVE westpacNextIndex(_, _)
westpacNextIndex(lines, n) ==
    IF n <= Len(lines) /\ ~isWestpacDateLine(lines[n])
    THEN westpacNextIndex(lines, n + 1)
    ELSE n

RECURSIVE joinWithSpaces(_, _, _)
joinWithSpaces(lines, from, to) ==
    IF from > to THEN ""
    ELSE " " \o lines[from] \o joinWithSpaces(lines, from + 1, to)

westpacIsCredit(description) ==
    LET descLower == toLowerCase(description)
    IN  \/ includes(descLower, "deposit")
        \/ includes(descLower, "salary")
        \/ includes(descLower, "transfer")
        \/ includes(descLower, "refund")

westpacRecordLastAmount(lines, i) ==
    LET rawDate == SubSeq(lines[i], 1, westpacDateLength(lines[i]))
        nextIndex == westpacNextIndex(lines, i + 1)
        description == trim(From(lines[i], Len(rawDate) + 1))
                       \o joinWithSpaces(lines, i + 1, nextIndex - 1)
        amountMatches == amountTokens(description, 1)
        transactionAmount == parseFloatCents(removeCommas(amountMatches[Len(amountMatches)]))
    IN  IF Len(amountMatches) < 2 THEN <<>>
        ELSE <<[id |-> i,
                date |-> normalizeDate(rawDate),
                description |-> cleanDescription(description),
                amount |-> IF westpacIsCredit(description)
                           THEN Abs(transactionAmount)
                           ELSE -Abs(transactionAmount),
                type |-> IF westpacIsCredit(description) THEN "credit"
                         ELSE "debit"]>>

westpacRecord(lines, i) ==
    LET rawDate == SubSeq(lines[i], 1, westpacDateLength(lines[i]))
        nextIndex == westpacNextIndex(lines, i + 1)
        description == trim(From(lines[i], Len(rawDate) + 1))
                       \o joinWithSpaces(lines, i + 1, nextIndex - 1)
        amountMatches == amountTokens(description, 1)
        transactionAmount == parseFloatCents(removeCommas(amountMatches[1]))
    IN  IF Len(amountMatches) < 2 THEN <<>>
        ELSE <<[id |-> i,
                date |-> normalizeDate(rawDate),
                description |-> cleanDescription(description),
                amount |-> IF westpacIsCredit(description)
                           THEN Abs(transactionAmount)
                           ELSE -Abs(transactionAmount),
                type |-> IF westpacIsCredit(description) THEN "credit"
                         ELSE "debit"]>>

RECURSIVE westpacScan(_, _)
westpacScan(lines, i) ==
    IF i > Len(lines) THEN <<>>
    ELSE IF isWestpacDateLine(lines[i])
    THEN westpacRecord(lines, i)
         \o westpacScan(lines, westpacNextIndex(lines, i + 1))
    ELSE westpacScan(lines, i + 1)

parseWestpac(text) == westpacScan(trimmedLines(text), 1)

----------------------------------------------------------------------------
(* POST /api/process-pdf.  An uploaded file is its MIME type, its size in
   bytes and what pdf-parse makes of its bytes: the extracted text, or an
   exception when the bytes are not a PDF.  A form field that is missing is
   Undef.  A response is its status and its JSON body; ran records the work
   done before the response: text extraction, and the parser that ran. *)

NoFile == [missing |-> TRUE]

maxFileSize == 10485760

PdfFile(text) ==
    [missing |-> FALSE, type |-> "application/pdf", size |-> 2048,
     unreadable |-> FALSE, text |-> text]

Respond(status, body, extracted, parser) ==
    [status |-> status, body |-> body,
     ran |-> [extracted |-> extracted, parser |-> parser]]

SupportedBanks == {"amex", "anz", "cba", "westpac"}

runParser(bank, fullText) ==
    CASE bank = "amex" -> parseAmex(fullText)
      [] bank = "anz" -> parseAnz(fullText)
      [] bank = "cba" -> parseCba(fullText)
      [] bank = "westpac" -> parseWestpac(fullText)

processPdfPOST(file, bank) ==
    IF file.missing
    THEN Respond(400, [error |-> "No file provided"], FALSE, "none")
    ELSE IF bank = Undef \/ bank = ""
    THEN Respond(400, [error |-> "No bank specified"], FALSE, "none")
    ELSE IF file.type # "application/pdf"
    THEN Respond(400, [error |-> "File must be a PDF"], FALSE, "none")
    ELSE IF file.size > maxFileSize
    THEN Respond(400, [error |-> "File size must be less than 10MB"],
                 FALSE, "none")
    ELSE IF file.unreadable
    THEN Respond(500, [success |-> FALSE, error |-> "Invalid PDF structure"],
                 TRUE, "none")
    ELSE IF toLowerCase(bank) \notin SupportedBanks
    THEN Respond(400, [error |-> "No parser available for bank: " \o bank],
                 TRUE, "none")
    ELSE LET transactions == runParser(toLowerCase(bank), file.text)
         IN  Respond(200,
                     [success |-> TRUE,
                      bank |-> toUpperCase(bank),
                      transactionCount |-> Len(transactions),
                      transactions |-> transactions],
                     TRUE, toLowerCase(bank))

----------------------------------------------------------------------------
(* The statements uploaded to POST /api/process-pdf.  A statement is a
   sequence of lines; a line keeps, next to its text, the form it was
   written in and, for a line of the ANZ form, its fields. *)

(* the longest AMEX statement, in lines *)
MaxAmexLines == 6

(* the longest statement of the other banks, in lines *)
MaxLines == 2

Line(text) == [form |-> "other", text |-> text]

AnzLine(processed, transaction, card, description, amount, credit, balance) ==
    [form |-> "anz",
     text |-> processed \o " " \o transaction \o " " \o card \o " "
              \o description \o " " \o amount \o credit \o " " \o balance,
     processed |-> processed, transaction |-> transaction, card |-> card,
     description |-> description, amount |-> amount, credit |-> credit,
     balance |-> balance]

SeqsUpTo(S, n) == UNION {[1..k -> S] : k \in 0..n}

AmexLineSet == {Line("May 1"), Line("COFFEE"), Line("12.50"), Line("0.00")}

AmexSpecials ==
    {<<Line("June 31"), Line("X"), Line("-3.00")>>,
     <<Line("May 1\r"), Line(""), Line("  COFFEE  "), Line("\t12.50")>>,
     <<Line("February  30"), Line("A"), Line("B"), Line("C"), Line("1.00")>>}

AnzLineSet ==
    {AnzLine("01/07/2024", t, "1234", d, a, c, "123.00") :
        t \in {"01/07/2024", "30/06/2024"},
        d \in {"WOOLWORTHS", "SHELL COLES EXPRESS 123"},
        a \in {"45.67", "$1,045.67"},
        c \in {"", " CR"}}
    \cup {Line("01/07/2024 01/07/2024 1234"), Line("Page 1 of 2")}

CbaLineSet ==
    {Line("22 Jan 2022 OPENING BALANCE Nil"),
     Line("5 March 2023 CLOSING BALANCE $1.00"),
     Line("OPENING BALANCE"),
     Line("1 July 2022 Transfer to savings 20.00")}

WestpacLineSet ==
    {Line("01/07/24 COFFEE SHOP 4.50 1,204.50"),
     Line("31/12/2023 Salary ACME 3,000.00"),
     Line("4,204.50"),
     Line("99/99/202 REFUND 1.00 2.00")}

(* records that wrap over several lines, a keyword in a wrapped line, a
   zero amount, text before the first date *)
WestpacSpecials ==
    {<<Line("01/07/24 COFFEE SHOP 4.50"), Line("continued"),
       Line("1,204.50")>>,
     <<Line("02/07/2024 ATM 20.00"), Line("Cash Deposit"), Line("0.00 5.00"),
       Line("03/07/24 FEE 0.00 10.00")>>,
     <<Line("Page 1 of 2 9.99 8.88"), Line("  04/07/24 TAXI 7.25  "),
       Line(""), Line("05/07/24 Transfer 3.00 9.00 1.00")>>}

Statements ==
    SeqsUpTo(AmexLineSet, MaxAmexLines) \cup AmexSpecials
    \cup WestpacSpecials
    \cup SeqsUpTo(AnzLineSet, MaxLines)
    \cup SeqsUpTo(CbaLineSet, MaxLines)
    \cup SeqsUpTo(WestpacLineSet, MaxLines)

textOfLines(lines) == joinLines([i \in DOMAIN lines |-> lines[i].text])

SampleStatement ==
    <<AnzLine("01/07/2024", "01/07/2024", "1234", "WOOLWORTHS", "45.67", "",
              "123.00")>>

(* the files and bank fields that exercise the validation of the request *)
FilesOf(lines) ==
    [missing : {FALSE},
     type : {"application/pdf", "text/plain"},
     size : {2048, maxFileSize, maxFileSize + 1},
     unreadable : BOOLEAN,
     text : {textOfLines(lines)}]

BankFields == {Undef, "", "amex", "ANZ", "cba", "westpac", "nab"}

Request(file, bank, lines) ==
    [op |-> "request", file |-> file, bank |-> bank, lines |-> lines]

Requests ==
    {Request(PdfFile(textOfLines(lines)), bank, lines) :
        lines \in Statements, bank \in SupportedBanks}
    \cup {Request(NoFile, bank, <<>>) : bank \in BankFields}
    \cup UNION {{Request(file, bank, lines) :
                    file \in FilesOf(lines), bank \in BankFields} :
                 lines \in {SampleStatement, <<>>}}

(* a request arrives *)
InitUpload ==
    /\ EmptyDatabase
    /\ localStorage = [k \in Keys |-> NoItem]
    /\ now = 0
    /\ classifier = [throws |-> FALSE, opt |-> [i \in TxIds |-> "deductible"]]
    /\ last \in Requests

(* the handler answers it *)
PostProcessPdf ==
    /\ last.op = "request"
    /\ last' = [op |-> "POST /api/process-pdf",
                file |-> last.file, bank |-> last.bank, lines |-> last.lines,
                response |-> processPdfPOST(last.file, last.bank)]
    /\ UNCHANGED <<localStorage, now, classifier, serverVars>>

NextUpload == PostProcessPdf

SpecUpload == InitUpload /\ [][NextUpload]_vars

----------------------------------------------------------------------------
(* The reference collections merchants and anzsic_mappings (lib/models).
   A collection is the sequence of its documents in insertion order; the
   _id of a document is its position, and no document is ever removed.
   uniqueIndex[c] tells whether the unique index of createIndexes exists
   on collection c; creating[p] is where caller p stands inside create. *)

Collection(c) == IF c = "merchants" THEN merchants ELSE anzsic_mappings

(* the field carrying the unique index of createIndexes *)
keyOf(c, doc) == IF c = "merchants" THEN doc.merchantName ELSE doc.anzsicCode

RECURSIVE padStart4(_)
padStart4(s) == IF Len(s) >= 4 THEN s ELSE padStart4("0" \o s)

(* the document MerchantModel.create and bulkCreate build from their input *)
merchantWithDefaults(data) ==
    [merchantName |-> trim(toLowerCase(data.merchantName)),
     displayName |-> data.displayName,
     anzsicCode |-> data.anzsicCode,
     keywords |-> data.keywords,
     aliases |-> data.aliases,
     isActive |-> TRUE,
     usageCount |-> 0]

(* the document AnzsicMappingModel.create and bulkCreate build *)
mappingWithDefaults(data) ==
    [anzsicCode |-> padStart4(data.anzsicCode),
     atoCategory |-> data.atoCategory,
     isDeductible |-> data.isDeductible,
     isActive |-> TRUE]

withDefaults(c, data) ==
    IF c = "merchants" THEN merchantWithDefaults(data)
    ELSE mappingWithDefaults(data)

(* collection.findOne({key, isActive: true}): the matching documents *)
findActive(docs, c, key) ==
    {i \in DOMAIN docs : docs[i].isActive /\ keyOf(c, docs[i]) = key}

(* the unique index covers every document, active or not *)
duplicateKey(docs, c, doc) ==
    \E i \in DOMAIN docs : keyOf(c, docs[i]) = keyOf(c, doc)

(* collection.insertOne(doc): with the unique index a duplicate key is
   refused (error 11000) and the collection is left as it was *)
insertOne(docs, unique, c, doc) ==
    IF unique /\ duplicateKey(docs, c, doc) THEN docs ELSE Append(docs, doc)

(* collection.insertMany(batch, {ordered: false}): every document is
   tried, the ones refused by the unique index are skipped *)
RECURSIVE insertMany(_, _, _, _)
insertMany(docs, unique, c, batch) ==
    IF batch = <<>> THEN docs
    ELSE insertMany(insertOne(docs, unique, c, Head(batch)), unique, c,
                    Tail(batch))

(* bulkCreate(batch): the collection afterwards; the number it returns is
   the number of documents inserted *)
bulkCreate(docs, unique, c, batch) ==
    insertMany(docs, unique, c,
               [k \in DOMAIN batch |-> withDefaults(c, batch[k])])

(* getAll(): the active documents *)
getAll(docs) == SelectSeq(docs, LAMBDA d : d.isActive)

(* delete(id): updateOne({_id}, {$set: {isActive: false}}) *)
softDelete(docs, id) ==
    [i \in DOMAIN docs |->
        IF i = id THEN [docs[i] EXCEPT !.isActive = FALSE] ELSE docs[i]]

(* MerchantModel.incrementUsage(merchantName): updateOne changes the first
   document with that name *)
incrementUsage(docs, merchantName) ==
    LET hits == {i \in DOMAIN docs :
                    docs[i].merchantName = trim(toLowerCase(merchantName))}
    IN  [i \in DOMAIN docs |->
            IF hits # {} /\ i = MinOf(hits)
            THEN [docs[i] EXCEPT !.usageCount = @ + 1]
            ELSE docs[i]]

(* createIndex({key: 1}, {unique: true}) fails when two documents already
   share a key *)
canIndex(docs, c) ==
    \A i, j \in DOMAIN docs :
        i # j => keyOf(c, docs[i]) # keyOf(c, docs[j])

----------------------------------------------------------------------------
(* Callers of the two models, interleaved: SpecCollections *)

MaxDocuments == 2

MerchantInput(name, display) ==
    [merchantName |-> name, displayName |-> display, anzsicCode |-> "4110",
     keywords |-> <<>>, aliases |-> <<>>]

MappingInput(code) ==
    [anzsicCode |-> code, atoCategory |-> "Personal Expenses",
     isDeductible |-> FALSE]

(* names that differ in case and blanks only, codes that differ in leading
   zeros only, and one more of each *)
Inputs(c) ==
    IF c = "merchants"
    THEN {MerchantInput(" Zorg ", "Zorg"), MerchantInput("zorg", "Zorg"),
          MerchantInput("acme", "Acme")}
    ELSE {MappingInput("613"), MappingInput("0613"), MappingInput("4110")}

Store(c, docs) ==
    IF c = "merchants"
    THEN merchants' = docs /\ UNCHANGED anzsic_mappings
    ELSE anzsic_mappings' = docs /\ UNCHANGED merchants

(* documents of c that callers inside create are about to insert *)
Pending(c) ==
    Cardinality({p \in Procs : creating[p].pc = "insert"
                               /\ creating[p].collection = c})

(* create, first step: build the document and look for an active one with
   its key; return it when there is one *)
CreateFind(p, c, data) ==
    /\ creating[p].pc = "idle"
    /\ Len(Collection(c)) + Pending(c) < MaxDocuments
    /\ IF findActive(Collection(c), c, keyOf(c, withDefaults(c, data))) # {}
       THEN /\ UNCHANGED creating
            /\ last' = [op |-> "create", collection |-> c,
                        returned |-> "existing"]
       ELSE /\ creating' = [creating EXCEPT ![p] =
                               [pc |-> "insert", collection |-> c,
                                doc |-> withDefaults(c, data)]]
            /\ last' = [op |-> "create: findOne", collection |-> c,
                        returned |-> "none"]
    /\ UNCHANGED <<localStorage, now, classifier, merchants,
                   anzsic_mappings, uniqueIndex>>

(* create, second step: insertOne; a duplicate key error is thrown to the
   caller *)
CreateInsert(p) ==
    /\ creating[p].pc = "insert"
    /\ Store(creating[p].collection,
             insertOne(Collection(creating[p].collection),
                       uniqueIndex[creating[p].collection],
                       creating[p].collection, creating[p].doc))
    /\ last' = [op |-> "create", collection |-> creating[p].collection,
                returned |->
                   IF /\ uniqueIndex[creating[p].collection]
                      /\ duplicateKey(Collection(creating[p].collection),
                                      creating[p].collection,
                                      creating[p].doc)
                   THEN "error 11000" ELSE "created"]
    /\ creating' = [creating EXCEPT ![p] = Idle]
    /\ UNCHANGED <<localStorage, now, classifier, uniqueIndex>>

BulkCreate(c, batch) ==
    /\ Len(Collection(c)) + Pending(c) + Len(batch) <= MaxDocuments
    /\ Store(c, bulkCreate(Collection(c), uniqueIndex[c], c, batch))
    /\ last' = [op |-> "bulkCreate", collection |-> c,
                returned |-> "inserted"]
    /\ UNCHANGED <<localStorage, now, classifier, uniqueIndex, creating>>

Delete(c, id) ==
    /\ id \in DOMAIN Collection(c)
    /\ Store(c, softDelete(Collection(c), id))
    /\ last' = [op |-> "delete", collection |-> c, returned |-> "modified"]
    /\ UNCHANGED <<localStorage, now, classifier, uniqueIndex, creating>>

CreateIndexes(c) ==
    /\ uniqueIndex' = [uniqueIndex EXCEPT ![c] = @ \/ canIndex(Collection(c), c)]
    /\ last' = [op |-> "createIndexes", collection |-> c,
                returned |-> IF uniqueIndex[c] \/ canIndex(Collection(c), c)
                             THEN "ok" ELSE "error 11000"]
    /\ UNCHANGED <<localStorage, now, classifier, merchants,
                   anzsic_mappings, creating>>

InputBatches(c) ==
    {<<a>> : a \in Inputs(c)} \cup {<<a, b>> : a \in Inputs(c), b \in Inputs(c)}

NextCollections ==
    \/ \E p \in Procs, c \in Collections :
          \E data \in Inputs(c) : CreateFind(p, c, data)
    \/ \E p \in Procs : CreateInsert(p)
    \/ \E c \in Collections : \E batch \in InputBatches(c) : BulkCreate(c, batch)
    \/ \E c \in Collections : \E id \in 1..MaxDocuments : Delete(c, id)
    \/ \E c \in Collections : CreateIndexes(c)

SpecCollections == Init /\ [][NextCollections]_vars

----------------------------------------------------------------------------
(* Statement processing: POST /api/upload-statements/process.  Merchant
   data is the record a tier hands to the classification loop; a field the
   source leaves undefined is Undef. *)

MERCHANT_PATTERNS ==
    <<[keywords |-> <<"shell", "bp", "caltex", "7-eleven", "mobil", "ampol",
                      "united petroleum", "puma energy">>,
       merchantName |-> "Fuel Station",
       anzsicCode |-> "4613",
       atoCategory |-> "Vehicles, Travel & Transport",
       isDeductible |-> TRUE],
      [keywords |-> <<"uber", "taxi", "cabcharge", "rideshare", "transport">>,
       merchantName |-> "Transport Service",
       anzsicCode |-> "4622",
       atoCategory |-> "Vehicles, Travel & Transport",
       isDeductible |-> TRUE],
      [keywords |-> <<"bunnings", "masters", "mitre 10", "mitre10",
                      "home depot", "hardware">>,
       merchantName |-> "Hardware Store",
       anzsicCode |-> "4231",
       atoCategory |-> "Work Tools, Equipment & Technology",
       isDeductible |-> TRUE],
      [keywords |-> <<"jb hi-fi", "jb hifi", "jbhifi", "harvey norman",
                      "officeworks", "dick smith", "electronics">>,
       merchantName |-> "Electronics Store",
       anzsicCode |-> "4252",
       atoCategory |-> "Work Tools, Equipment & Technology",
       isDeductible |-> TRUE],
      [keywords |-> <<"accountant", "lawyer", "solicitor", "consultant",
                      "professional">>,
       merchantName |-> "Professional Services",
       anzsicCode |-> "6920",
       atoCategory |-> "Professional Memberships & Fees",
       isDeductible |-> TRUE],
      [keywords |-> <<"telstra", "optus", "vodafone", "tpg", "iinet",
                      "mobile", "internet">>,
       merchantName |-> "Telecommunications",
       anzsicCode |-> "5910",
       atoCategory |-> "Home Office Expenses",
       isDeductible |-> TRUE],
      [keywords |-> <<"atm fee", "bank fee", "account fee",
                      "transaction fee", "overdraft">>,
       merchantName |-> "Banking Fees",
       anzsicCode |-> "6221",
       atoCategory |-> "Tax & Accounting Expenses",
       isDeductible |-> TRUE],
      [keywords |-> <<"mcdonalds", "mcdonald", "maccas", "kfc", "subway",
                      "dominos", "pizza hut", "hungry jacks", "red rooster">>,
       merchantName |-> "Fast Food",
       anzsicCode |-> "5611",
       atoCategory |-> "Meals & Entertainment (Work-Related)",
       isDeductible |-> TRUE],
      [keywords |-> <<"starbucks", "gloria jeans", "coffee club", "cafe",
                      "coffee">>,
       merchantName |-> "Coffee Shop",
       anzsicCode |-> "5613",
       atoCategory |-> "Meals & Entertainment (Work-Related)",
       isDeductible |-> TRUE],
      [keywords |-> <<"woolworths", "woolies", "coles", "aldi", "iga",
                      "supermarket", "grocery">>,
       merchantName |-> "Supermarket",
       anzsicCode |-> "4110",
       atoCategory |-> "Personal Expenses",
       isDeductible |-> FALSE],
      [keywords |-> <<"target", "kmart", "big w", "bigw", "myer",
                      "david jones", "clothing", "fashion">>,
       merchantName |-> "Retail Store",
       anzsicCode |-> "4251",
       atoCategory |-> "Personal Expenses",
       isDeductible |-> FALSE]>>

(* pattern.regex.test(cleanDesc), the regular expression being the
   keywords joined by "|": no keyword holds a special character, so the
   alternation matches when one of the keywords occurs in the text *)
keywordOccurs(rule, text) ==
    \E k \in DOMAIN rule.keywords : includes(text, rule.keywords[k])

(* the first rule of the table, from rule k on, with a keyword in the
   text; 0 when there is none *)
RECURSIVE firstRule(_, _, _)
firstRule(rules, text, k) ==
    IF k > Len(rules) THEN 0
    ELSE IF keywordOccurs(rules[k], text) THEN k
    ELSE firstRule(rules, text, k + 1)

RECURSIVE lastRule(_, _, _)
lastRule(rules, text, k) ==
    IF k = 0 THEN 0
    ELSE IF keywordOccurs(rules[k], text) THEN k
    ELSE lastRule(rules, text, k - 1)

NoMerchant == [found |-> FALSE]

patternData(rule) ==
    [found |-> TRUE,
     merchantName |-> rule.merchantName,
     anzsicCode |-> rule.anzsicCode,
     atoCategory |-> rule.atoCategory,
     isDeductible |-> rule.isDeductible]

ruleData(rules, k) == IF k = 0 THEN NoMerchant ELSE patternData(rules[k])

matchLastRule(description) ==
    ruleData(MERCHANT_PATTERNS,
             lastRule(MERCHANT_PATTERNS, toLowerCase(description),
                      Len(MERCHANT_PATTERNS)))

(* OptimizedMerchantMatcher.match *)
match(description) ==
    ruleData(MERCHANT_PATTERNS,
             firstRule(MERCHANT_PATTERNS, toLowerCase(description), 1))

(* ---- extractMerchantSmart ---- *)

bankingTerms ==
    <<"payment", "purchase", "withdrawal", "deposit", "transfer", "fee",
      "charge", "atm", "pos", "eft", "bpay", "direct", "debit", "credit",
      "card", "visa", "mastercard", "amex">>

(* \b(t1|t2|...)\b at position p: the terms that match there *)
termsAt(s, p, terms) ==
    {k \in DOMAIN terms :
        /\ StartsWithAt(s, p, terms[k])
        /\ wordBoundary(s, p)
        /\ wordBoundary(s, p + Len(terms[k]))}

(* the length of the match at p, 0 without a match: the alternatives are
   tried in order *)
firstTermLength(terms, matching) ==
    IF matching = {} THEN 0 ELSE Len(terms[MinOf(matching)])

termLength(s, p, terms) == firstTermLength(terms, termsAt(s, p, terms))

(* s.replace(/\b(t1|t2|...)\b/g, "") *)
RECURSIVE removeTerms(_, _, _)
removeTermAt(s, p, terms, length) ==
    IF length > 0 THEN removeTerms(s, p + length, terms)
    ELSE Ch(s, p) \o removeTerms(s, p + 1, terms)

removeTerms(s, p, terms) ==
    IF p > Len(s) THEN ""
    ELSE removeTermAt(s, p, terms, termLength(s, p, terms))

(* /\b(t1|t2|...)\b/.test(s) *)
hasTerm(s, terms) == \E p \in 1..Len(s) : termsAt(s, p, terms) # {}

(* s.replace(/\d+/g, "") *)
RECURSIVE removeDigits(_)
removeDigits(s) ==
    IF s = "" THEN ""
    ELSE (IF isDigit(Ch(s, 1)) THEN "" ELSE Ch(s, 1)) \o removeDigits(Tail(s))

(* s.replace(/[^\w\s]/g, " ") *)
RECURSIVE blankSpecials(_)
blankSpecials(s) ==
    IF s = "" THEN ""
    ELSE (IF isWordChar(Ch(s, 1)) \/ isSpace(Ch(s, 1)) THEN Ch(s, 1)
          ELSE " ") \o blankSpecials(Tail(s))

cleanedForExtraction(cleanDesc) ==
    trim(collapseSpaces(
            blankSpecials(removeDigits(removeTerms(cleanDesc, 1,
                                                   bankingTerms))), 1))

AtLeast3(word) == Len(word) >= 3

(* the first word of three characters or more, else "Unknown" *)
headOr(words, otherwise) == IF words = <<>> THEN otherwise ELSE Head(words)

firstMeaningful(words) == headOr(SelectSeq(words, AtLeast3), "Unknown")

(* the keyword groups of the smart categorisation, in the order of the if
   statements *)
smartGroups ==
    <<[terms |-> <<"fuel", "petrol", "gas", "station", "shell", "bp",
                   "caltex", "mobil", "ampol">>,
       anzsicCode |-> "4613",
       atoCategory |-> "Vehicles, Travel & Transport"],
      [terms |-> <<"food", "restaurant", "cafe", "meal", "lunch", "dinner",
                   "mcdonalds", "kfc", "subway", "starbucks">>,
       anzsicCode |-> "5611",
       atoCategory |-> "Meals & Entertainment (Work-Related)"],
      [terms |-> <<"hardware", "tools", "equipment", "supplies", "bunnings",
                   "mitre">>,
       anzsicCode |-> "4231",
       atoCategory |-> "Work Tools, Equipment & Technology"],
      [terms |-> <<"phone", "mobile", "internet", "telco",
                   "telecommunications", "telstra", "optus", "vodafone">>,
       anzsicCode |-> "5910",
       atoCategory |-> "Home Office Expenses"],
      [terms |-> <<"atm", "bank", "fee", "account", "service">>,
       anzsicCode |-> "6221",
       atoCategory |-> "Tax & Accounting Expenses"]>>

RECURSIVE firstGroup(_, _)
firstGroup(cleanDesc, k) ==
    IF k > Len(smartGroups) THEN 0
    ELSE IF hasTerm(cleanDesc, smartGroups[k].terms) THEN k
    ELSE firstGroup(cleanDesc, k + 1)

smartResult(merchantName, k) ==
    IF k = 0
    THEN [found |-> TRUE, merchantName |-> merchantName,
          anzsicCode |-> "9999", atoCategory |-> "Personal Expenses",
          isDeductible |-> FALSE, source |-> "fallback"]
    ELSE [found |-> TRUE, merchantName |-> merchantName,
          anzsicCode |-> smartGroups[k].anzsicCode,
          atoCategory |-> smartGroups[k].atoCategory,
          isDeductible |-> TRUE, source |-> "smart-extraction"]

extractMerchantSmart(description) ==
    smartResult(firstMeaningful(
                    Words(cleanedForExtraction(toLowerCase(description)))),
                firstGroup(toLowerCase(description), 1))

----------------------------------------------------------------------------
(* OptimizedDatabaseService: the caches are loaded from the active
   documents at the start of a request *)

(* the characters of names, in the order of their codes *)
AsciiOrder ==
    " -0123456789ABCDEFGHIJKLMNOPQRSTUVWXYZ_abcdefghijklmnopqrstuvwxyz"

charCode(c) == PositionIn(AsciiOrder, c)

(* a sorts before b in the order of sort({displayName: 1}) *)
RECURSIVE sortsBefore(_, _)
sortsBefore(a, b) ==
    IF b = "" THEN FALSE
    ELSE IF a = "" THEN TRUE
    ELSE IF Ch(a, 1) # Ch(b, 1) THEN charCode(Ch(a, 1)) < charCode(Ch(b, 1))
    ELSE sortsBefore(Tail(a), Tail(b))

(* the keys preloadCaches files a merchant under *)
merchantKeys(doc) ==
    {toLowerCase(doc.merchantName)}
    \cup {toLowerCase(doc.keywords[k]) : k \in DOMAIN doc.keywords}
    \cup {toLowerCase(doc.aliases[k]) : k \in DOMAIN doc.aliases}

cachedUnder(docs, key) ==
    {i \in DOMAIN docs : docs[i].isActive /\ key \in merchantKeys(docs[i])}

(* getAll() returns the merchants sorted by displayName and every
   merchantCache.set overwrites the entry before it: document i is loaded
   after document j *)
loadedAfter(docs, i, j) ==
    \/ sortsBefore(docs[j].displayName, docs[i].displayName)
    \/ docs[j].displayName = docs[i].displayName /\ j < i

lastLoaded(docs, hits) ==
    CHOOSE i \in hits : \A j \in hits \ {i} : loadedAfter(docs, i, j)

(* a merchant document carries neither atoCategory nor isDeductible: the
   handler reads the missing isDeductible as false *)
merchantData(docs, i) ==
    [found |-> TRUE,
     id |-> i,
     merchantName |-> docs[i].merchantName,
     anzsicCode |-> docs[i].anzsicCode,
     atoCategory |-> Undef,
     isDeductible |-> FALSE]

(* merchantCache.has(key) *)
merchantCacheHas(docs, key) == cachedUnder(docs, key) # {}

cacheEntry(docs, hits) ==
    IF hits = {} THEN NoMerchant
    ELSE merchantData(docs, lastLoaded(docs, hits))

findMerchant(docs, searchTerm) ==
    cacheEntry(docs, cachedUnder(docs, toLowerCase(searchTerm)))

(* anzsicCache.get(code): the mappings are loaded sorted by anzsicCode, the
   last one with the code stays *)
mappingEntry(docs, hits) ==
    IF hits = {} THEN NoMerchant
    ELSE [found |-> TRUE,
          atoCategory |-> docs[MaxOf(hits)].atoCategory,
          isDeductible |-> docs[MaxOf(hits)].isDeductible]

findAnzsicMapping(docs, code) ==
    mappingEntry(docs, findActive(docs, "anzsic_mappings", code))

(* the documents bulkSaveMerchants builds from the queue: names the cache
   does not hold, other than "Unknown" *)
RECURSIVE saveBatch(_, _)
saveBatch(docs, queue) ==
    IF queue = <<>> THEN <<>>
    ELSE (IF /\ ~merchantCacheHas(docs, toLowerCase(Head(queue).merchantName))
             /\ Head(queue).merchantName # "Unknown"
          THEN <<[merchantName |-> toLowerCase(Head(queue).merchantName),
                  displayName |-> Head(queue).merchantName,
                  anzsicCode |-> Head(queue).anzsicCode,
                  keywords |-> <<toLowerCase(Head(queue).merchantName)>>,
                  aliases |-> <<>>]>>
          ELSE <<>>)
         \o saveBatch(docs, Tail(queue))

(* ---- parseANZ of the statement endpoint ---- *)

IsDebit(m) == ~m.credit

statementTransaction(m) ==
    [id |-> m.at,
     date |-> slashDateToIso(m.transaction),
     description |-> trim(m.description),
     amount |-> -parseFloatCents(removeCommas(m.amount))]

RECURSIVE transactionsOf(_)
transactionsOf(debits) ==
    IF debits = <<>> THEN <<>>
    ELSE <<statementTransaction(Head(debits))>> \o transactionsOf(Tail(debits))

parseANZ(text) == transactionsOf(SelectSeq(anzMatches(text, 1, 1), IsDebit))

(* ---- the classification loop ---- *)

(* description.toLowerCase().split(/\s+/).filter(word.length >= 3) *)
keywordsOf(description) == SelectSeq(Words(toLowerCase(description)), AtLeast3)

(* step 1: the first keyword the merchant cache holds *)
RECURSIVE databaseLookup(_, _)
foundOrNext(found, docs, keywords) ==
    IF found.found THEN found ELSE databaseLookup(docs, keywords)

databaseLookup(docs, keywords) ==
    IF keywords = <<>> THEN NoMerchant
    ELSE foundOrNext(findMerchant(docs, Head(keywords)), docs,
                     Tail(keywords))

(* step 3: smart extraction, queued for saving unless it is "Unknown" *)
smartResolution(smart) ==
    [data |-> smart,
     source |-> "smart-extraction",
     queued |-> IF smart.merchantName # "Unknown"
                THEN <<[merchantName |-> smart.merchantName,
                        anzsicCode |-> smart.anzsicCode]>>
                ELSE <<>>]

(* step 2: the pattern table, else step 3 *)
laterTiers(fromPattern, description) ==
    IF fromPattern.found
    THEN [data |-> fromPattern, source |-> "pattern", queued |-> <<>>]
    ELSE smartResolution(extractMerchantSmart(description))

resolveAfter(fromDatabase, description) ==
    IF fromDatabase.found
    THEN [data |-> fromDatabase, source |-> "database", queued |-> <<>>]
    ELSE laterTiers(match(description), description)

(* the ANZSIC mapping of a database merchant overrides its category *)
withMapping(resolved, mapping) ==
    IF resolved.source = "database" /\ resolved.data.anzsicCode # ""
       /\ mapping.found
    THEN [resolved EXCEPT !.data.isDeductible = mapping.isDeductible,
                          !.data.atoCategory = mapping.atoCategory]
    ELSE resolved

mapped(resolved, mappingDocs) ==
    withMapping(resolved,
                findAnzsicMapping(mappingDocs, resolved.data.anzsicCode))

resolve(merchantDocs, mappingDocs, description) ==
    mapped(resolveAfter(databaseLookup(merchantDocs,
                                       keywordsOf(description)),
                        description),
           mappingDocs)

processedTransaction(transaction, bankType, data, source) ==
    [id |-> transaction.id,
     date |-> transaction.date,
     description |-> transaction.description,
     amount |-> transaction.amount,
     account |-> toUpperCase(bankType) \o " Statement",
     type |-> IF transaction.amount < 0 THEN "debit" ELSE "credit",
     merchantName |-> IF data.merchantName = "" THEN "Unknown"
                      ELSE data.merchantName,
     anzsicCode |-> data.anzsicCode,
     category |-> IF data.atoCategory \in {Undef, ""} THEN "Other"
                  ELSE data.atoCategory,
     deductionType |-> IF data.isDeductible THEN data.atoCategory
                       ELSE "null",
     isBusinessExpense |-> data.isDeductible,
     deductionAmount |-> IF data.isDeductible /\ transaction.amount < 0
                         THEN Abs(transaction.amount) ELSE 0,
     autoClassified |-> TRUE,
     classificationSource |-> source,
     isDeductible |-> data.isDeductible,
     atoCategory |-> data.atoCategory]

classifiedAs(transaction, bankType, resolved) ==
    [transaction |->
        processedTransaction(transaction, bankType, resolved.data,
                             resolved.source),
     queued |-> resolved.queued]

classify(merchantDocs, mappingDocs, bankType, transaction) ==
    classifiedAs(transaction, bankType,
                 resolve(merchantDocs, mappingDocs, transaction.description))

RECURSIVE queueOf(_)
queueOf(classified) ==
    IF classified = <<>> THEN <<>>
    ELSE Head(classified).queued \o queueOf(Tail(classified))

RECURSIVE processedOf(_)
processedOf(classified) ==
    IF classified = <<>> THEN <<>>
    ELSE <<Head(classified).transaction>> \o processedOf(Tail(classified))

(* ---- the handler ---- *)

(* the parsers of the statement endpoint; requests name ANZ or a bank the
   endpoint does not support *)
statementParser(bank, text) == CASE bank = "anz" -> parseANZ(text)

Answer(status, body, batch) ==
    [status |-> status, body |-> body, batch |-> batch]

processed(classified, batch) ==
    Answer(200,
           [success |-> TRUE,
            transactions |-> processedOf(classified),
            stats |->
               [total |-> Len(classified),
                deductible |->
                   Cardinality({i \in DOMAIN classified :
                                   classified[i].transaction.isDeductible}),
                newMerchants |-> Len(batch)]],
           batch)

(* for (const transaction of transactions) *)
RECURSIVE classifyAll(_, _, _, _)
classifyAll(merchantDocs, mappingDocs, bankType, transactions) ==
    IF transactions = <<>> THEN <<>>
    ELSE <<classify(merchantDocs, mappingDocs, bankType, Head(transactions))>>
         \o classifyAll(merchantDocs, mappingDocs, bankType,
                        Tail(transactions))

answerFor(merchantDocs, classified) ==
    processed(classified, saveBatch(merchantDocs, queueOf(classified)))

(* after the parser *)
answerParsed(request, merchantDocs, mappingDocs, transactions) ==
    IF transactions = <<>>
    THEN Answer(200,
                [success |-> TRUE, transactions |-> <<>>,
                 stats |-> [total |-> 0, deductible |-> 0,
                            newMerchants |-> 0],
                 message |-> "No transactions found in PDF"],
                <<>>)
    ELSE answerFor(merchantDocs,
                   classifyAll(merchantDocs, mappingDocs, request.bankType,
                               transactions))

uploadStatementsPOST(request, merchantDocs, mappingDocs) ==
    IF ~includes(request.contentType, "multipart/form-data")
    THEN Answer(400, [error |-> "Content-Type must be multipart/form-data"],
                <<>>)
    ELSE IF request.file.missing \/ request.bankType \in {Undef, ""}
    THEN Answer(400, [error |-> "Missing file or bank type"], <<>>)
    ELSE IF request.file.unreadable
    THEN Answer(500, [success |-> FALSE, error |-> "Invalid PDF structure"],
                <<>>)
    ELSE IF toLowerCase(request.bankType) \notin SupportedBanks
    THEN Answer(400,
                [error |-> "Unsupported bank type: " \o request.bankType],
                <<>>)
    ELSE answerParsed(request, merchantDocs, mappingDocs,
                      statementParser(toLowerCase(request.bankType),
                                      request.file.text))

----------------------------------------------------------------------------
(* extractMerchantInternally of the classification endpoint: its own rule
   table, then the first meaningful word *)

patterns ==
    <<[keywords |-> <<"shell", "bp", "caltex", "mobil", "7-eleven", "ampol">>,
       merchantName |-> "Fuel Station",
       anzsicCode |-> "4613",
       atoCategory |-> "Vehicles, Travel & Transport",
       isDeductible |-> TRUE],
      [keywords |-> <<"woolworths", "coles", "iga", "aldi", "foodworks">>,
       merchantName |-> "Supermarket",
       anzsicCode |-> "4711",
       atoCategory |-> "Other",
       isDeductible |-> FALSE],
      [keywords |-> <<"mcdonald", "kfc", "subway", "dominos", "pizza hut",
                      "hungry jack">>,
       merchantName |-> "Fast Food",
       anzsicCode |-> "5621",
       atoCategory |-> "Meals & Entertainment (Work-Related)",
       isDeductible |-> TRUE],
      [keywords |-> <<"starbucks", "gloria jean", "coffee club", "cafe">>,
       merchantName |-> "Coffee Shop",
       anzsicCode |-> "5621",
       atoCategory |-> "Meals & Entertainment (Work-Related)",
       isDeductible |-> TRUE],
      [keywords |-> <<"bunnings", "masters", "mitre 10">>,
       merchantName |-> "Hardware Store",
       anzsicCode |-> "4521",
       atoCategory |-> "Equipment & Tools",
       isDeductible |-> TRUE],
      [keywords |-> <<"jb hi-fi", "harvey norman", "officeworks",
                      "dick smith">>,
       merchantName |-> "Electronics Store",
       anzsicCode |-> "4252",
       atoCategory |-> "Equipment & Tools",
       isDeductible |-> TRUE],
      [keywords |-> <<"target", "kmart", "big w", "myer", "david jones">>,
       merchantName |-> "Clothing Store",
       anzsicCode |-> "4721",
       atoCategory |-> "Other",
       isDeductible |-> FALSE],
      [keywords |-> <<"uber", "taxi", "cabcharge", "transport">>,
       merchantName |-> "Transport Service",
       anzsicCode |-> "7220",
       atoCategory |-> "Vehicles, Travel & Transport",
       isDeductible |-> TRUE],
      [keywords |-> <<"accounting", "lawyer", "legal", "consultant">>,
       merchantName |-> "Professional Service",
       anzsicCode |-> "6920",
       atoCategory |-> "Professional Memberships & Fees",
       isDeductible |-> TRUE],
      [keywords |-> <<"parking", "wilson", "secure parking">>,
       merchantName |-> "Parking",
       anzsicCode |-> "7220",
       atoCategory |-> "Vehicles, Travel & Transport",
       isDeductible |-> TRUE],
      [keywords |-> <<"telstra", "optus", "vodafone", "tpg">>,
       merchantName |-> "Telecommunications",
       anzsicCode |-> "5910",
       atoCategory |-> "Phone & Internet",
       isDeductible |-> TRUE],
      [keywords |-> <<"atm", "bank", "westpac", "commonwealth", "anz", "nab">>,
       merchantName |-> "Banking Service",
       anzsicCode |-> "6220",
       atoCategory |-> "Bank Fees",
       isDeductible |-> TRUE]>>

(* the first keyword of the rule that occurs in desc, 0 without one *)
firstKeyword(rule, desc) ==
    IF keywordOccurs(rule, desc)
    THEN MinOf({k \in DOMAIN rule.keywords : includes(desc, rule.keywords[k])})
    ELSE 0

(* merchantName.charAt(0).toUpperCase() + merchantName.slice(1).toLowerCase() *)
capitalize(word) ==
    IF word = "" THEN "" ELSE upperChar(Ch(word, 1)) \o toLowerCase(Tail(word))

(* keywords[0].charAt(0).toUpperCase() + keywords[0].slice(1) *)
capitalizeFirst(word) ==
    IF word = "" THEN "" ELSE upperChar(Ch(word, 1)) \o Tail(word)

LongerThan2(word) == Len(word) > 2

(* words.find(word includes keyword, or keyword includes word), else the
   name of the rule *)
RECURSIVE wordFor(_, _, _)
wordFor(words, keyword, otherwise) ==
    IF words = <<>> THEN otherwise
    ELSE IF \/ includes(toLowerCase(Head(words)), keyword)
            \/ includes(keyword, toLowerCase(Head(words)))
    THEN Head(words)
    ELSE wordFor(Tail(words), keyword, otherwise)

internalMatch(rule, keyword, description) ==
    [found |-> TRUE,
     merchantName |->
        capitalize(wordFor(SelectSeq(Words(description), LongerThan2),
                           keyword, rule.merchantName)),
     anzsicCode |-> rule.anzsicCode,
     atoCategory |-> rule.atoCategory,
     isDeductible |-> rule.isDeductible]

excludeWords ==
    {"payment", "purchase", "withdrawal", "deposit", "transfer", "fee",
     "charge", "atm", "pos", "eft", "bpay", "direct", "debit", "credit",
     "card", "visa", "mastercard", "amex", "paypal", "apple", "google",
     "samsung", "pay", "transaction", "ref", "trace", "auth", "merchant",
     "terminal", "branch"}

Meaningful(word) ==
    Len(word) >= 3 /\ word \notin excludeWords /\ ~allDigits(word)

internalFallback(keywords) ==
    [found |-> TRUE,
     merchantName |-> IF keywords = <<>> THEN "Unknown Merchant"
                      ELSE capitalizeFirst(Head(keywords)),
     anzsicCode |-> "9999",
     atoCategory |-> "Other",
     isDeductible |-> FALSE]

internalResult(description, k) ==
    IF k = 0
    THEN internalFallback(
             SelectSeq(Words(trim(collapseSpaces(
                           blankSpecials(toLowerCase(description)), 1))),
                       Meaningful))
    ELSE internalMatch(patterns[k],
                       patterns[k].keywords[
                           firstKeyword(patterns[k],
                                        toLowerCase(description))],
                       description)

extractMerchantInternally(description) ==
    internalResult(description,
                   firstRule(patterns, toLowerCase(description), 1))

----------------------------------------------------------------------------
(* Statement batches, one after the other, over the reference collections:
   SpecStatements *)

MaxStatementLines == 1

Descriptions ==
    {"SHELL COLES EXPRESS 123", "WOOLWORTHS", "PETROL 24", "ZORG STORE",
     "ACME123 STORE", "AB 12"}

LineOf(description) ==
    AnzLine("01/07/2024", "02/07/2024", "1234", description, "45.67", "",
            "123.00")

(* one debit per description, and a credit *)
StatementLineSet ==
    {LineOf(d) : d \in Descriptions}
    \cup {AnzLine("01/07/2024", "02/07/2024", "1234", "WOOLWORTHS",
                  "$1,045.67", " CR", "123.00")}

Multipart == "multipart/form-data; boundary=x"

StatementRequest(contentType, file, bankType) ==
    [contentType |-> contentType, file |-> file, bankType |-> bankType]

(* statements of several lines: a description twice, the tiers together *)
LongerStatements ==
    {<<LineOf("ZORG STORE"), LineOf("ZORG STORE")>>,
     <<LineOf("ZORG STORE"), LineOf("WOOLWORTHS"), LineOf("PETROL 24"),
       LineOf("SHELL COLES EXPRESS 123")>>}

StatementRequests ==
    {StatementRequest(Multipart, PdfFile(textOfLines(lines)), "ANZ") :
        lines \in SeqsUpTo(StatementLineSet, MaxStatementLines)
                  \cup LongerStatements}
    \cup {StatementRequest("application/json",
                           PdfFile(textOfLines(SampleStatement)), "anz"),
          StatementRequest(Multipart, NoFile, "anz"),
          StatementRequest(Multipart, PdfFile(textOfLines(SampleStatement)),
                           Undef),
          StatementRequest(Multipart, PdfFile(textOfLines(SampleStatement)),
                           "nab"),
          StatementRequest(Multipart,
                           [PdfFile("") EXCEPT !.unreadable = TRUE], "anz")}

(* the reference data a deployment may have been seeded with *)
SeedMerchants ==
    <<merchantWithDefaults(
          [merchantName |-> "Woolworths", displayName |-> "Woolworths",
           anzsicCode |-> "4110", keywords |-> <<"woolies">>,
           aliases |-> <<>>])>>

SeedMappings ==
    <<mappingWithDefaults(
          [anzsicCode |-> "4110", atoCategory |-> "Personal Expenses",
           isDeductible |-> FALSE])>>

(* a deployment starts without reference data or seeded with it; a
   description may be waiting at the classification endpoint *)
InitStatements ==
    /\ \E seeded \in BOOLEAN :
          /\ merchants = IF seeded THEN SeedMerchants ELSE <<>>
          /\ anzsic_mappings = IF seeded THEN SeedMappings ELSE <<>>
    /\ uniqueIndex = [c \in Collections |-> FALSE]
    /\ creating = [p \in Procs |-> Idle]
    /\ localStorage = [k \in Keys |-> NoItem]
    /\ now = 0
    /\ classifier = [throws |-> FALSE, opt |-> [i \in TxIds |-> "deductible"]]
    /\ last \in {[op |-> "init"]}
                \cup {[op |-> "classify", description |-> d] :
                         d \in Descriptions}

(* the handler: the answer is computed from the collections as they are
   when the caches are loaded, and the batch of new merchants is saved with
   merchantModel.bulkCreate before the response is sent; known is the
   number of merchant documents the request found *)
AnswerStatement(request, answer) ==
    /\ merchants' = IF answer.batch = <<>> THEN merchants
                    ELSE bulkCreate(merchants, uniqueIndex["merchants"],
                                    "merchants", answer.batch)
    /\ last' = [op |-> "POST /api/upload-statements/process",
                request |-> request,
                known |-> Len(merchants),
                saved |-> answer.batch,
                response |-> [status |-> answer.status,
                              body |-> answer.body]]
    /\ UNCHANGED <<localStorage, now, classifier, anzsic_mappings,
                   uniqueIndex, creating>>

PostUploadStatements(request) ==
    \E answer \in {uploadStatementsPOST(request, merchants, anzsic_mappings)} :
        AnswerStatement(request, answer)

(* the classification endpoint extracts the merchant of the description *)
ExtractInternally ==
    /\ last.op = "classify"
    /\ last' = [op |-> "extractMerchantInternally",
                description |-> last.description,
                result |-> extractMerchantInternally(last.description)]
    /\ UNCHANGED <<localStorage, now, classifier, serverVars>>

NextStatements ==
    \/ \E request \in StatementRequests : PostUploadStatements(request)
    \/ ExtractInternally

SpecStatements == InitStatements /\ [][NextStatements]_vars

----------------------------------------------------------------------------
(* Claims about POST /api/process-pdf and its parsers, under SpecUpload *)

Uploaded == last.op = "POST /api/process-pdf"

(* the request fails the validation of the endpoint *)
InvalidRequest(file, bank) ==
    \/ file.missing
    \/ bank = Undef \/ bank = ""
    \/ file.type # "application/pdf"
    \/ file.size > maxFileSize
    \/ toLowerCase(bank) \notin SupportedBanks

(* C16: a request with a missing file, a missing bank identifier, a non-PDF
   MIME type, a file larger than 10 MB or an unsupported bank identifier is
   answered with a 4xx error, and neither text extraction nor a parser has
   run before the error *)
C16_InvalidRequestRejectedFirst ==
    (Uploaded /\ InvalidRequest(last.file, last.bank)) =>
        /\ last.response.status \in 400..499
        /\ ~last.response.ran.extracted
        /\ last.response.ran.parser = "none"

(* C17: when the PDF is accepted and the selected parser matches no
   transaction, the response is a success-false result carrying a hint *)
C17_NoTransactionIsReported ==
    (/\ Uploaded
     /\ last.response.ran.parser # "none"
     /\ runParser(last.response.ran.parser, last.file.text) = <<>>) =>
        /\ last.response.body.success = FALSE
        /\ "error" \in DOMAIN last.response.body

isLeapYear(y) == (y % 4 = 0 /\ y % 100 # 0) \/ y % 400 = 0

daysInMonth(y, m) ==
    IF m = 2 THEN (IF isLeapYear(y) THEN 29 ELSE 28)
    ELSE IF m \in {4, 6, 9, 11} THEN 30 ELSE 31

(* YYYY-MM-DD with a real month and a real day *)
isIsoCalendarDate(s) ==
    /\ Len(s) = 10
    /\ \A k \in {1, 2, 3, 4, 6, 7, 9, 10} : isDigit(Ch(s, k))
    /\ Ch(s, 5) = "-"
    /\ Ch(s, 8) = "-"
    /\ parseDigits(SubSeq(s, 6, 7)) \in 1..12
    /\ parseDigits(SubSeq(s, 9, 10))
          \in 1..daysInMonth(parseDigits(SubSeq(s, 1, 4)),
                             parseDigits(SubSeq(s, 6, 7)))

(* C18: every transaction a parser emits has a valid ISO calendar date and
   a finite numeric amount *)
C18_ValidDateFiniteAmount ==
    (Uploaded /\ last.response.status = 200) =>
        \A k \in DOMAIN last.response.body.transactions :
            /\ isIsoCalendarDate(last.response.body.transactions[k].date)
            /\ last.response.body.transactions[k].amount \in Int

ParsedBy(bank) == Uploaded /\ last.response.ran.parser = bank

(* the bare amount lines among the three lines after the description line
   that follows the date line d *)
AmountWindow(lines, d) ==
    {k \in (d + 2)..(d + 4) : k <= Len(lines) /\ isSignedAmount(lines[k])}

(* C19: each transaction the AMEX parser emits has type debit and an amount
   > 0 equal to the absolute value of the first bare amount line among the
   three lines after its description line, the line after a "Month Day"
   line; a date line with no such amount line emits no transaction *)
C19_AmexAmount ==
    ParsedBy("amex") =>
        LET lines == amexLines(last.file.text)
            emitted == last.response.body.transactions
        IN  /\ \A k \in DOMAIN emitted :
                  /\ emitted[k].type = "debit"
                  /\ emitted[k].amount > 0
                  /\ emitted[k].id \in DOMAIN lines
                  /\ isAmexDateLine(lines[emitted[k].id])
                  /\ emitted[k].id + 1 <= Len(lines)
                  /\ emitted[k].description = lines[emitted[k].id + 1]
                  /\ AmountWindow(lines, emitted[k].id) # {}
                  /\ emitted[k].amount =
                        Abs(parseFloatCents(
                               lines[MinOf(AmountWindow(lines,
                                                        emitted[k].id))]))
            /\ \A d \in DOMAIN lines :
                  (isAmexDateLine(lines[d]) /\ AmountWindow(lines, d) = {})
                      => \A k \in DOMAIN emitted : emitted[k].id # d

(* a transaction whose amount stood on the third line after the description,
   next to a date line that found no amount *)
C19_Witness ==
    /\ ParsedBy("amex")
    /\ LET lines == amexLines(last.file.text)
           emitted == last.response.body.transactions
       IN  /\ \E k \in DOMAIN emitted :
                 MinOf(AmountWindow(lines, emitted[k].id)) = emitted[k].id + 4
           /\ \E d \in DOMAIN lines :
                 isAmexDateLine(lines[d]) /\ AmountWindow(lines, d) = {}

(* what a line of the ANZ form is to yield *)
AnzExpected(line) ==
    [date |-> slashDateToIso(line.transaction),
     description |-> line.description,
     amount |-> IF line.credit = ""
                THEN parseFloatCents(removeCommas(
                        From(line.amount, dollarLength(line.amount, 1) + 1)))
                ELSE -parseFloatCents(removeCommas(
                        From(line.amount, dollarLength(line.amount, 1) + 1)))]

Yields(transaction, expected) ==
    /\ transaction.date = expected.date
    /\ transaction.description = expected.description
    /\ transaction.amount = expected.amount

(* C20: each line of the ANZ form yields exactly one transaction, with the
   transaction date rewritten to YYYY-MM-DD, the description field, and the
   amount, negated when the CR marker is present: as many transactions
   carry the values a line is to yield as there are lines to yield them *)
C20_AnzLineYieldsTransaction ==
    ParsedBy("anz") =>
        \A i \in DOMAIN last.lines :
            last.lines[i].form = "anz" =>
                Cardinality({k \in DOMAIN last.response.body.transactions :
                    Yields(last.response.body.transactions[k],
                           AnzExpected(last.lines[i]))})
                = Cardinality({j \in DOMAIN last.lines :
                    /\ last.lines[j].form = "anz"
                    /\ AnzExpected(last.lines[j])
                          = AnzExpected(last.lines[i])})

(* the same, for statements made of lines of the ANZ form only *)
AnzLinesOnlyYield ==
    (ParsedBy("anz")
     /\ \A i \in DOMAIN last.lines : last.lines[i].form = "anz")
        => C20_AnzLineYieldsTransaction


(* the lines the Westpac parser reads: trimmed, the empty ones left out *)
westpacLinesRead == trimmedLines(last.file.text)

(* the lines of the record that the date line i opens: line i and the lines
   after it up to the next date line *)
RecordLines(lines, i) ==
    {k \in i..Len(lines) :
        \A m \in (i + 1)..k : ~isWestpacDateLine(lines[m])}

(* the decimal-amount tokens of line k of a record opened at line i: the
   date is no part of the description *)
TokensOfLine(lines, i, k) ==
    amountTokens(IF k = i
                 THEN From(lines[i], westpacDateLength(lines[i]) + 1)
                 ELSE lines[k], 1)

RECURSIVE TokensFrom(_, _, _)
TokensFrom(lines, i, k) ==
    IF k \notin RecordLines(lines, i) THEN <<>>
    ELSE TokensOfLine(lines, i, k) \o TokensFrom(lines, i, k + 1)

RecordTokens(lines, i) == TokensFrom(lines, i, i)

CreditWords == {"deposit", "salary", "transfer", "refund"}

RecordIsCredit(lines, i) ==
    \E k \in RecordLines(lines, i) : \E w \in CreditWords :
        includes(toLowerCase(lines[k]), w)

(* the date lines whose record holds two amount tokens or more *)
EmittingRecords(lines) ==
    {i \in DOMAIN lines :
        isWestpacDateLine(lines[i]) /\ Len(RecordTokens(lines, i)) >= 2}

(* C21: Westpac parser: a line starting with a date opens a record that
   takes the lines up to the next date line; a record with fewer than two
   decimal-amount tokens emits nothing, any other exactly one transaction,
   whose magnitude is the first token, credit and positive when the
   description contains deposit, salary, transfer or refund in any case,
   debit and negative otherwise *)
C21_WestpacRecords ==
    ParsedBy("westpac") =>
        LET lines == westpacLinesRead
            emitted == last.response.body.transactions
        IN  /\ \A k \in DOMAIN emitted : emitted[k].id \in EmittingRecords(lines)
            /\ \A i \in EmittingRecords(lines) :
                  Cardinality({k \in DOMAIN emitted : emitted[k].id = i}) = 1
            /\ \A k \in DOMAIN emitted :
                  /\ Abs(emitted[k].amount)
                        = parseFloatCents(removeCommas(
                              RecordTokens(lines, emitted[k].id)[1]))
                  /\ RecordIsCredit(lines, emitted[k].id)
                        => /\ emitted[k].type = "credit"
                           /\ emitted[k].amount >= 0
                  /\ ~RecordIsCredit(lines, emitted[k].id)
                        => /\ emitted[k].type = "debit"
                           /\ emitted[k].amount <= 0

(* a statement with a record wrapped over three lines that is a credit by a
   word of its second line, and a record with one token that emits nothing *)
C21_Witness ==
    /\ ParsedBy("westpac")
    /\ LET lines == westpacLinesRead
           emitted == last.response.body.transactions
       IN  /\ \E k \in DOMAIN emitted :
                 /\ Cardinality(RecordLines(lines, emitted[k].id)) >= 3
                 /\ emitted[k].type = "credit"
                 /\ emitted[k].amount > 0
                 /\ ~RecordIsCredit(<<lines[emitted[k].id]>>, 1)
                 /\ Len(RecordTokens(lines, emitted[k].id)) >= 3
           /\ \E k \in DOMAIN emitted :
                 emitted[k].type = "debit" /\ emitted[k].amount = 0

----------------------------------------------------------------------------
(* Claims about the reference collections, under SpecCollections *)

ActiveDuplicates(c) ==
    {pair \in (DOMAIN Collection(c)) \X (DOMAIN Collection(c)) :
        /\ pair[1] < pair[2]
        /\ Collection(c)[pair[1]].isActive
        /\ Collection(c)[pair[2]].isActive
        /\ keyOf(c, Collection(c)[pair[1]]) = keyOf(c, Collection(c)[pair[2]])}

(* C14: under any interleaving of concurrent create calls (a find step
   followed by an insert step), bulkCreate calls and soft deletes, neither
   anzsic_mappings nor merchants ever holds two active documents with the
   same key (zero-padded anzsicCode, lowercased trimmed merchantName) *)
C14_KeyUniqueness == \A c \in Collections : ActiveDuplicates(c) = {}

(* what does hold: a collection on which createIndexes succeeded holds no
   two documents with the same key *)
UniqueOnceIndexed ==
    \A c \in Collections : uniqueIndex[c] => canIndex(Collection(c), c)

----------------------------------------------------------------------------
(* Claims about statement processing, under SpecStatements *)

StatementsProcessed ==
    /\ last.op = "POST /api/upload-statements/process"
    /\ last.response.status = 200

(* the transactions of the response *)
processedTransactions ==
    IF StatementsProcessed THEN last.response.body.transactions ELSE <<>>

(* the merchant documents the request found: the batch it saved was
   appended to them *)
KnownMerchants ==
    IF StatementsProcessed THEN SubSeq(merchants, 1, last.known) ELSE <<>>

databaseHit(docs, description) ==
    databaseLookup(docs, keywordsOf(description)).found

(* the rules of a table with a keyword in the lowercased description *)
matchingRules(rules, description) ==
    {k \in DOMAIN rules : keywordOccurs(rules[k], toLowerCase(description))}

(* the first tier that finds something: the merchant index, the pattern
   table, a keyword group of the smart extraction, and else the fallback *)
firstTier(docs, description) ==
    IF databaseHit(docs, description) THEN "database"
    ELSE IF matchingRules(MERCHANT_PATTERNS, description) # {} THEN "pattern"
    ELSE IF firstGroup(toLowerCase(description), 1) # 0
    THEN "smart-extraction"
    ELSE "fallback"

(* C11: each transaction of a processed statement is classified by the
   first tier that matches, in the order database, pattern, smart
   extraction, fallback, and its classificationSource names that tier *)
C11_SourceNamesFirstTier ==
    \A i \in DOMAIN processedTransactions :
        processedTransactions[i].classificationSource
            = firstTier(KnownMerchants, processedTransactions[i].description)

(* what does hold: the order of the tiers, the last two under one name *)
SourceNamesTierButFallback ==
    \A i \in DOMAIN processedTransactions :
        processedTransactions[i].classificationSource
            = IF firstTier(KnownMerchants, processedTransactions[i].description)
                   = "fallback"
              THEN "smart-extraction"
              ELSE firstTier(KnownMerchants, processedTransactions[i].description)

FuelAndSupermarket == "SHELL COLES EXPRESS 123"

(* the category and the deductibility are those of the earliest rule of the
   table with a keyword in the description *)
EarliestRuleWins(rules, description, data) ==
    /\ matchingRules(rules, description) # {}
          => /\ data.atoCategory
                   = rules[MinOf(matchingRules(rules, description))].atoCategory
             /\ data.isDeductible
                   = rules[MinOf(matchingRules(rules, description))].isDeductible
    /\ description = FuelAndSupermarket
          => /\ data.atoCategory = "Vehicles, Travel & Transport"
             /\ data.isDeductible = TRUE

(* C12: within the pattern tier the earliest rule whose keywords match the
   lowercased description wins, in statement processing when the database
   has no hit and in extractMerchantInternally: "SHELL COLES EXPRESS 123",
   with a fuel-station and a supermarket keyword, gets atoCategory
   "Vehicles, Travel & Transport" and isDeductible true *)
C12_EarliestRuleWins ==
    /\ \A i \in DOMAIN processedTransactions :
          ~databaseHit(KnownMerchants, processedTransactions[i].description)
              => /\ EarliestRuleWins(MERCHANT_PATTERNS,
                                     processedTransactions[i].description, processedTransactions[i])
                 /\ matchingRules(MERCHANT_PATTERNS, processedTransactions[i].description) # {}
                       => processedTransactions[i].classificationSource = "pattern"
    /\ last.op = "extractMerchantInternally"
          => EarliestRuleWins(patterns, last.description, last.result)

(* a statement with the fuel-and-supermarket description was processed
   without a database hit, by the pattern tier *)
C12_Witness ==
    \E i \in DOMAIN processedTransactions :
        /\ processedTransactions[i].description = FuelAndSupermarket
        /\ ~databaseHit(KnownMerchants, FuelAndSupermarket)
        /\ Cardinality(matchingRules(MERCHANT_PATTERNS, FuelAndSupermarket)) >= 2
        /\ processedTransactions[i].classificationSource = "pattern"

(* the batch saved the merchant of transaction t, classified by smart
   extraction or fallback under a name other than "Unknown" *)
Learned(t, saved) ==
    /\ t.classificationSource \in {"smart-extraction", "fallback"}
    /\ t.merchantName # "Unknown"
    /\ \E k \in DOMAIN saved : saved[k].displayName = t.merchantName

(* C13: learning: after a batch in which a description was classified by
   smart extraction or fallback with a merchant name other than "Unknown",
   and the queued merchant was saved, the next batch classifies the same
   description at the database tier, classificationSource "database" *)
C13_Learning ==
    [][\A i \in DOMAIN processedTransactions : \A j \in DOMAIN processedTransactions' :
          (/\ Learned(processedTransactions[i], last.saved)
           /\ processedTransactions'[j].description = processedTransactions[i].description)
              => processedTransactions'[j].classificationSource = "database"]_vars

(* the transactions of the response that the database tier resolved to
   merchant document i *)
resolvedTo(i) ==
    {j \in DOMAIN processedTransactions :
        /\ processedTransactions[j].classificationSource = "database"
        /\ databaseLookup(KnownMerchants,
                          keywordsOf(processedTransactions[j].description)).id = i}

(* C15: every resolution of a transaction to an existing merchant at the
   database tier increments that merchant's usageCount by one, and no other
   step changes usageCount *)
C15_UsageCounted ==
    [][\A i \in DOMAIN merchants :
          merchants'[i].usageCount
              = merchants[i].usageCount + Cardinality(resolvedTo(i)')]_vars

(* what does hold: statement processing leaves every usageCount alone *)
UsageCountUntouched ==
    [][\A i \in DOMAIN merchants :
          merchants'[i].usageCount = merchants[i].usageCount]_vars

----------------------------------------------------------------------------
(* Dates of src/lib/transaction-utils.ts.  A Date is its time value, here
   in seconds since 1970-01-01T00:00:00Z; the runtime's timezone is its
   offset from UTC in minutes, east positive.  The local fields of a Date
   are those of its time value moved by the offset. *)

yearLength(y) == IF isLeapYear(y) THEN 366 ELSE 365

RECURSIVE daysBeforeYear(_)
daysBeforeYear(y) ==
    IF y <= 1970 THEN 0 ELSE yearLength(y - 1) + daysBeforeYear(y - 1)

RECURSIVE daysBeforeMonth(_, _)
daysBeforeMonth(y, m) ==
    IF m <= 1 THEN 0 ELSE daysInMonth(y, m - 1) + daysBeforeMonth(y, m - 1)

(* Date.UTC(year, monthIndex, day, hours, minutes, seconds), in seconds *)
dateUTC(year, monthIndex, day, hours, minutes, seconds) ==
    (daysBeforeYear(year) + daysBeforeMonth(year, monthIndex + 1) + day - 1)
        * 86400
    + hours * 3600 + minutes * 60 + seconds

(* new Date("YYYY-MM-DD"): a date-only string is read as UTC midnight *)
newDateFromString(dateString) ==
    dateUTC(parseDigits(SubSeq(dateString, 1, 4)),
            parseDigits(SubSeq(dateString, 6, 7)) - 1,
            parseDigits(SubSeq(dateString, 9, 10)), 0, 0, 0)

(* new Date(year, monthIndex, day, hours, minutes, seconds): the fields are
   local time *)
newDateLocal(year, monthIndex, day, hours, minutes, seconds, offset) ==
    dateUTC(year, monthIndex, day, hours, minutes, seconds) - offset * 60

(* the local day of a time value, in days since 1970-01-01 *)
localDay(time, offset) == (time + offset * 60) \div 86400

RECURSIVE yearFromDay(_, _)
yearFromDay(day, y) ==
    IF day >= yearLength(y) THEN yearFromDay(day - yearLength(y), y + 1)
    ELSE y

RECURSIVE monthFromDay(_, _, _)
monthFromDay(day, y, m) ==
    IF day >= daysInMonth(y, m)
    THEN monthFromDay(day - daysInMonth(y, m), y, m + 1)
    ELSE m

(* Date.prototype.getFullYear *)
getFullYear(time, offset) == yearFromDay(localDay(time, offset), 1970)

(* Date.prototype.getMonth: 0 for January *)
getMonth(time, offset) ==
    monthFromDay(localDay(time, offset)
                    - daysBeforeYear(getFullYear(time, offset)),
                 getFullYear(time, offset), 1) - 1

(* String(n) for a number n >= 0 *)
RECURSIVE numberToString(_)
numberToString(n) ==
    IF n < 10 THEN Ch(DigitChars, n + 1)
    ELSE numberToString(n \div 10) \o Ch(DigitChars, (n % 10) + 1)

(* s.replace(what, ""): the first occurrence is removed *)
removeFirst(s, what) ==
    IF includes(s, what)
    THEN SubSeq(s, 1, MinOf({i \in 1..Len(s) : StartsWithAt(s, i, what)}) - 1)
         \o From(s, MinOf({i \in 1..Len(s) : StartsWithAt(s, i, what)})
                       + Len(what))
    ELSE s

(* TransactionUtils.getFinancialYearFromDate *)
getFinancialYearFromDate(dateString, offset) ==
    IF getMonth(newDateFromString(dateString), offset) + 1 >= 7
    THEN "FY" \o numberToString(
                     getFullYear(newDateFromString(dateString), offset) + 1)
    ELSE "FY" \o numberToString(
                     getFullYear(newDateFromString(dateString), offset))

(* the test of the filter: transactionDate >= startDate &&
   transactionDate <= endDate *)
inFinancialYear(dateString, year, offset) ==
    /\ newDateFromString(dateString)
          >= newDateLocal(year - 1, 6, 1, 0, 0, 0, offset)
    /\ newDateFromString(dateString)
          <= newDateLocal(year, 5, 30, 23, 59, 59, offset)

RECURSIVE keptInYear(_, _, _)
keptInYear(transactions, year, offset) ==
    IF transactions = <<>> THEN <<>>
    ELSE (IF inFinancialYear(Head(transactions).date, year, offset)
          THEN <<Head(transactions)>> ELSE <<>>)
         \o keptInYear(Tail(transactions), year, offset)

(* TransactionUtils.filterByFinancialYear *)
filterByFinancialYear(transactions, financialYear, offset) ==
    keptInYear(transactions, parseDigits(removeFirst(financialYear, "FY")),
               offset)

----------------------------------------------------------------------------
(* The aggregation functions of TransactionUtils.  Amounts are in cents.
   A tax rate is in tenths of a percent (32.5 is 325, the fraction 0.3 is
   300), so that a saving, an amount times a rate, is in thousandths of a
   cent.  A field a transaction does not carry is no field of its record.
   The user is what the income sources hold: the salary /api/auth/me
   answers with and the annualIncome of onboarding_step2, each a set with a
   number or empty. *)

defaultIncome == 80000

defaultTaxRate == 300

statsTaxRate == 325

(* t.deductionAmount || 0 *)
deductionAmountOf(t) ==
    IF "deductionAmount" \in DOMAIN t THEN t.deductionAmount ELSE 0

(* transaction.category || "Other" *)
categoryOf(t) ==
    IF "category" \in DOMAIN t THEN OrElse(t.category, "Other") ELSE "Other"

(* TransactionUtils.getUserIncome *)
getUserIncome(user) ==
    IF \E dbIncome \in user.salary : dbIncome > 0
    THEN CHOOSE dbIncome \in user.salary : TRUE
    ELSE IF \E income \in user.annualIncome : income # 0
    THEN CHOOSE income \in user.annualIncome : TRUE
    ELSE defaultIncome

taxRateStrictlyAbove(income) ==
    IF income >= 180000 THEN 450
    ELSE IF income >= 120000 THEN 370
    ELSE IF income >= 45000 THEN 325
    ELSE IF income >= 18200 THEN 190
    ELSE 0

(* the bracket table of getUserTaxRate *)
taxRateOf(income) ==
    IF income > 180000 THEN 450
    ELSE IF income > 120000 THEN 370
    ELSE IF income > 45000 THEN 325
    ELSE IF income > 18200 THEN 190
    ELSE 0

(* TransactionUtils.getUserTaxRate *)
getUserTaxRate(user) == taxRateOf(getUserIncome(user))

(* the sum of a list of numbers *)
RECURSIVE sumOf(_)
sumOf(numbers) ==
    IF numbers = <<>> THEN 0 ELSE Head(numbers) + sumOf(Tail(numbers))

(* the sum of f over a list *)
SumOver(transactions, f(_)) ==
    sumOf([i \in DOMAIN transactions |-> f(transactions[i])])

(* if (amount < 0) totalExpenses += Math.abs(amount) *)
expenseOf(t) ==
    IF ParseAmount(t.amount) < 0 THEN Abs(ParseAmount(t.amount)) ELSE 0

dashboardDeductionAnySign(t) ==
    IF ~t.isBusinessExpense THEN 0
    ELSE IF deductionAmountOf(t) > 0 THEN deductionAmountOf(t)
    ELSE Abs(ParseAmount(t.amount))

(* the deduction calculateDashboardStats counts for a transaction *)
dashboardDeductionOf(t) ==
    IF ~t.isBusinessExpense THEN 0
    ELSE IF deductionAmountOf(t) > 0 THEN deductionAmountOf(t)
    ELSE IF ParseAmount(t.amount) < 0 THEN Abs(ParseAmount(t.amount))
    ELSE 0

(* TransactionUtils.calculateDashboardStats, without lastSync *)
calculateDashboardStats(transactions, user) ==
    [totalTransactions |-> Len(transactions),
     totalIncome |-> getUserIncome(user),
     totalExpenses |-> SumOver(transactions, expenseOf),
     deductionAmount |-> SumOver(transactions, dashboardDeductionOf),
     taxSavings |-> SumOver(transactions, dashboardDeductionOf)
                    * getUserTaxRate(user),
     accountsConnected |->
        Cardinality({transactions[i].accountId : i \in DOMAIN transactions})]

(* t.isBusinessExpense && t.deductionAmount *)
hasDeduction(t) == t.isBusinessExpense /\ deductionAmountOf(t) # 0

countedDeductionOf(t) == IF hasDeduction(t) THEN deductionAmountOf(t) ELSE 0

(* TransactionUtils.getTotalDeductions *)
getTotalDeductions(transactions) == SumOver(transactions, countedDeductionOf)

(* TransactionUtils.getPotentialSavings; the rate is defaultTaxRate when
   the caller gives none *)
getPotentialSavings(totalDeductions, taxRate) == totalDeductions * taxRate

(* the deduction getStats counts for a transaction *)
statsDeductionOf(t) ==
    IF ~t.isBusinessExpense THEN 0
    ELSE IF deductionAmountOf(t) # 0 THEN deductionAmountOf(t)
    ELSE expenseOf(t)

(* TransactionUtils.getStats *)
getStats(transactions) ==
    [totalTransactions |-> Len(transactions),
     totalExpenses |-> SumOver(transactions, expenseOf),
     businessExpenses |->
        Cardinality({i \in DOMAIN transactions :
                        transactions[i].isBusinessExpense}),
     totalDeductions |-> SumOver(transactions, statsDeductionOf),
     potentialSavings |-> SumOver(transactions, statsDeductionOf)
                          * statsTaxRate]

(* ---- calculateMonthlyTrends ---- *)

(* the month of a transaction in local time: the key of monthlyData *)
monthKey(t, offset) ==
    <<getFullYear(newDateFromString(t.date), offset),
      getMonth(newDateFromString(t.date), offset)>>

(* the distinct values of a list, in the order they come in: the keys of a
   Map *)
RECURSIVE distinctInOrder(_, _)
distinctInOrder(keys, seen) ==
    IF keys = <<>> THEN <<>>
    ELSE IF Head(keys) \in seen THEN distinctInOrder(Tail(keys), seen)
    ELSE <<Head(keys)>>
         \o distinctInOrder(Tail(keys), seen \cup {Head(keys)})

keysInOrder(transactions, key(_)) ==
    distinctInOrder([i \in DOMAIN transactions |-> key(transactions[i])], {})

(* Array.prototype.sort with a comparison of numbers, which is stable: x
   is set before the first element whose number is larger than its own *)
RECURSIVE insertSorted(_, _)
insertSorted(x, sorted) ==
    IF sorted = <<>> THEN <<x>>
    ELSE IF x[1] < Head(sorted)[1] THEN <<x>> \o sorted
    ELSE <<Head(sorted)>> \o insertSorted(x, Tail(sorted))

RECURSIVE sortPairs(_)
sortPairs(pairs) ==
    IF pairs = <<>> THEN <<>>
    ELSE insertSorted(pairs[Len(pairs)],
                      sortPairs(SubSeq(pairs, 1, Len(pairs) - 1)))

sortBy(list, order(_)) ==
    LET sorted == sortPairs([i \in DOMAIN list |-> <<order(list[i]), list[i]>>])
    IN  [i \in DOMAIN sorted |-> sorted[i][2]]

(* new Date(a).getTime() - new Date(b).getTime() for two month keys *)
monthOrder(key) == key[1] * 12 + key[2]

(* .slice(-n) *)
lastOf(list, n) ==
    IF Len(list) <= n THEN list ELSE SubSeq(list, Len(list) - n + 1, Len(list))

monthlyDeductionOf(t) == countedDeductionOf(t)

monthlyRow(transactions, month, offset, taxRate) ==
    LET InMonth(t) == monthKey(t, offset) = month
        ofMonth == SelectSeq(transactions, InMonth)
    IN  [month |-> month,
         expenses |-> SumOver(ofMonth, expenseOf),
         deductions |-> SumOver(ofMonth, monthlyDeductionOf),
         savings |-> SumOver(ofMonth, monthlyDeductionOf) * taxRate,
         count |-> Len(ofMonth)]

RECURSIVE monthlyRows(_, _, _, _)
monthlyRows(transactions, months, offset, taxRate) ==
    IF months = <<>> THEN <<>>
    ELSE <<monthlyRow(transactions, Head(months), offset, taxRate)>>
         \o monthlyRows(transactions, Tail(months), offset, taxRate)

(* TransactionUtils.calculateMonthlyTrends *)
calculateMonthlyTrends(transactions, user, offset) ==
    LET KeyOf(t) == monthKey(t, offset)
    IN  monthlyRows(transactions,
                    lastOf(sortBy(keysInOrder(transactions, KeyOf),
                                  monthOrder), 6),
                    offset, getUserTaxRate(user))

(* ---- calculateCategoryBreakdown ---- *)

(* a quotient of two numbers, kept as the two numbers *)
Quotient(num, den) == [num |-> num, den |-> den]

categoryRow(counted, category, totalDeductionAmount) ==
    LET InCategory(t) == categoryOf(t) = category
        ofCategory == SelectSeq(counted, InCategory)
    IN  [category |-> category,
         amount |-> SumOver(ofCategory, deductionAmountOf),
         count |-> Len(ofCategory),
         percentage |->
            IF totalDeductionAmount > 0
            THEN Quotient(SumOver(ofCategory, deductionAmountOf) * 100,
                          totalDeductionAmount)
            ELSE Quotient(0, 1)]

RECURSIVE categoryRows(_, _, _)
categoryRows(counted, categories, totalDeductionAmount) ==
    IF categories = <<>> THEN <<>>
    ELSE <<categoryRow(counted, Head(categories), totalDeductionAmount)>>
         \o categoryRows(counted, Tail(categories), totalDeductionAmount)

(* (a, b) => b.amount - a.amount *)
amountDescending(row) == 0 - row.amount

calculateCategoryBreakdownUnsorted(transactions) ==
    LET counted == SelectSeq(transactions, hasDeduction)
    IN  categoryRows(counted, keysInOrder(counted, categoryOf),
                     SumOver(counted, deductionAmountOf))

(* TransactionUtils.calculateCategoryBreakdown *)
calculateCategoryBreakdown(transactions) ==
    LET counted == SelectSeq(transactions, hasDeduction)
    IN  sortBy(categoryRows(counted, keysInOrder(counted, categoryOf),
                            SumOver(counted, deductionAmountOf)),
               amountDescending)

----------------------------------------------------------------------------
(* Calls of the reporting functions of TransactionUtils: SpecReports.  A
   call waits with its arguments and the timezone of the runtime; the
   function answers it. *)

(* the longest transaction list of a call *)
MaxReportTransactions == 2

(* offsets from UTC in minutes: New York, UTC, Kolkata, Sydney *)
TimezoneOffsets == {-300, 0, 330, 600}

ReportDates ==
    {"2023-07-01", "2024-02-29", "2024-06-30", "2024-07-01", "2024-12-31",
     "2025-01-01", "2025-06-30", "2025-07-01"}

FinancialYears == {"FY2024", "FY2025"}

DatedTransaction(date) == [id |-> date, date |-> date]

Call(fn, args, offset) ==
    [op |-> "call", fn |-> fn, args |-> args, offset |-> offset]

FinancialYearCalls ==
    {Call("getFinancialYearFromDate", <<date>>, offset) :
        date \in ReportDates, offset \in TimezoneOffsets}
    \cup {Call("filterByFinancialYear", <<transactions, year>>, offset) :
            transactions \in SeqsUpTo({DatedTransaction(d) : d \in ReportDates},
                                      MaxReportTransactions),
            year \in FinancialYears, offset \in TimezoneOffsets}

(* the longest transaction list of an aggregation call *)
MaxLedger == 3

(* classified transactions: fuel and meals of the dashboard, a flagged
   expense with deductionAmount 0, a flagged refund without one, an
   unflagged expense that carries one, a flagged expense without category,
   a salary and a half-deductible phone bill *)
Ledger ==
    {[id |-> 1, date |-> "2024-07-01", amount |-> -5000, accountId |-> "a",
      isBusinessExpense |-> TRUE, deductionAmount |-> 5000,
      category |-> "Fuel"],
     [id |-> 2, date |-> "2024-08-10", amount |-> -15000, accountId |-> "a",
      isBusinessExpense |-> TRUE, deductionAmount |-> 15000,
      category |-> "Fuel"],
     [id |-> 3, date |-> "2024-08-31", amount |-> -10000, accountId |-> "b",
      isBusinessExpense |-> TRUE, deductionAmount |-> 10000,
      category |-> "Meals"],
     [id |-> 4, date |-> "2024-09-01", amount |-> -2000, accountId |-> "a",
      isBusinessExpense |-> TRUE, deductionAmount |-> 0,
      category |-> "Fuel"],
     [id |-> 5, date |-> "2024-09-02", amount |-> 3000, accountId |-> "b",
      isBusinessExpense |-> TRUE, category |-> "Meals"],
     [id |-> 6, date |-> "2024-10-01", amount |-> -4000, accountId |-> "c",
      isBusinessExpense |-> FALSE, deductionAmount |-> 4000],
     [id |-> 7, date |-> "2024-10-31", amount |-> -100000, accountId |-> "c",
      isBusinessExpense |-> TRUE, deductionAmount |-> 100000],
     [id |-> 8, date |-> "2024-11-01", amount |-> 250000, accountId |-> "a",
      isBusinessExpense |-> FALSE, category |-> "Income"],
     [id |-> 9, date |-> "2024-12-01", amount |-> -8000, accountId |-> "b",
      isBusinessExpense |-> TRUE, deductionAmount |-> 4000,
      category |-> "Phone"]}

Ledgers == SeqsUpTo(Ledger, MaxLedger)

(* incomes at and around the edges of the brackets *)
Incomes ==
    {0, 18200, 18201, 45000, 45001, 100000, 120000, 120001, 180000, 180001}

(* what the income sources hold: a salary in the database, or none and an
   annualIncome of the onboarding, or none *)
User(salary, annualIncome) ==
    [salary |-> salary, annualIncome |-> annualIncome]

Users ==
    {User({income}, {}) : income \in Incomes}
    \cup {User({}, annualIncome) : annualIncome \in {{}, {0}, {30000}}}
    \cup {User({0}, {200000})}

LedgerUsers == {User({100000}, {}), User({}, {}), User({0}, {200000})}

AggregationCalls ==
    {Call("getUserTaxRate", <<user>>, 0) : user \in Users}
    \cup {Call("calculateDashboardStats", <<transactions, user>>, 0) :
            transactions \in Ledgers, user \in LedgerUsers}
    \cup {Call("calculateMonthlyTrends", <<transactions, user>>, offset) :
            transactions \in Ledgers, user \in LedgerUsers,
            offset \in {-300, 600}}
    \cup {Call("getStats", <<transactions, user>>, 0) :
            transactions \in Ledgers, user \in LedgerUsers}
    \cup {Call("getPotentialSavings", <<transactions, user>>, 0) :
            transactions \in Ledgers, user \in LedgerUsers}
    \cup {Call("calculateCategoryBreakdown", <<transactions>>, 0) :
            transactions \in Ledgers}

ReportCalls == FinancialYearCalls \cup AggregationCalls

InitReports ==
    /\ EmptyDatabase
    /\ localStorage = [k \in Keys |-> NoItem]
    /\ now = 0
    /\ classifier = [throws |-> FALSE, opt |-> [i \in TxIds |-> "deductible"]]
    /\ last \in ReportCalls

Returned(result) ==
    /\ last' = [op |-> last.fn, args |-> last.args, offset |-> last.offset,
                result |-> result]
    /\ UNCHANGED <<localStorage, now, classifier, serverVars>>

Calling(fn) == last.op = "call" /\ last.fn = fn

GetFinancialYearFromDate ==
    /\ Calling("getFinancialYearFromDate")
    /\ Returned(getFinancialYearFromDate(last.args[1], last.offset))

FilterByFinancialYear ==
    /\ Calling("filterByFinancialYear")
    /\ Returned(filterByFinancialYear(last.args[1], last.args[2],
                                      last.offset))

GetUserTaxRate ==
    /\ Calling("getUserTaxRate")
    /\ Returned(getUserTaxRate(last.args[1]))

CalculateDashboardStats ==
    /\ Calling("calculateDashboardStats")
    /\ Returned(calculateDashboardStats(last.args[1], last.args[2]))

CalculateMonthlyTrends ==
    /\ Calling("calculateMonthlyTrends")
    /\ Returned(calculateMonthlyTrends(last.args[1], last.args[2],
                                       last.offset))

(* getStats does not ask for the user *)
GetStats ==
    /\ Calling("getStats")
    /\ Returned(getStats(last.args[1]))

(* getPotentialSavings(getTotalDeductions(transactions)), the rate left to
   its default, which does not ask for the user either *)
GetPotentialSavings ==
    /\ Calling("getPotentialSavings")
    /\ Returned(getPotentialSavings(getTotalDeductions(last.args[1]),
                                    defaultTaxRate))

CalculateCategoryBreakdown ==
    /\ Calling("calculateCategoryBreakdown")
    /\ Returned(calculateCategoryBreakdown(last.args[1]))

NextReports ==
    \/ GetFinancialYearFromDate
    \/ FilterByFinancialYear
    \/ GetUserTaxRate
    \/ CalculateDashboardStats
    \/ CalculateMonthlyTrends
    \/ GetStats
    \/ GetPotentialSavings
    \/ CalculateCategoryBreakdown

SpecReports == InitReports /\ [][NextReports]_vars

----------------------------------------------------------------------------
(* Claims about the reporting functions, under SpecReports *)

ReturnedFrom(fn) == last.op = fn

(* the financial year of a calendar date: the year that ends on the 30 June
   on or after it *)
CalendarFinancialYear(dateString) ==
    IF parseDigits(SubSeq(dateString, 6, 7)) >= 7
    THEN parseDigits(SubSeq(dateString, 1, 4)) + 1
    ELSE parseDigits(SubSeq(dateString, 1, 4))

(* C22: financial-year assignment is by calendar date and inclusive at both
   ends whatever the timezone offset of the runtime: getFinancialYearFromDate
   gives FY(y+1) from 1 July of year y on and FY(y) up to 30 June of year y,
   and filterByFinancialYear("FYn") keeps exactly the transactions dated
   from 1 July of year n-1 to 30 June of year n *)
C22_FinancialYearByCalendarDate ==
    /\ ReturnedFrom("getFinancialYearFromDate")
          => last.result
                = "FY" \o numberToString(CalendarFinancialYear(last.args[1]))
    /\ ReturnedFrom("filterByFinancialYear")
          => /\ \A k \in DOMAIN last.result :
                   "FY" \o numberToString(
                               CalendarFinancialYear(last.result[k].date))
                       = last.args[2]
             /\ Len(last.result)
                   = Cardinality({i \in DOMAIN last.args[1] :
                        "FY" \o numberToString(
                                    CalendarFinancialYear(
                                        last.args[1][i].date))
                            = last.args[2]})

(* what does hold: the same in a runtime at UTC or east of it *)
FinancialYearEastOfUTC ==
    (last.op # "call" /\ last.offset >= 0) => C22_FinancialYearByCalendarDate


(* ---- tax rate and savings ---- *)

(* the bracket table, by the upper edge of each bracket *)
BracketRate(income) ==
    CASE income <= 18200 -> 0
      [] income > 18200 /\ income <= 45000 -> 190
      [] income > 45000 /\ income <= 120000 -> 325
      [] income > 120000 /\ income <= 180000 -> 370
      [] income > 180000 -> 450

(* dollars in cents, and a saving of so many cents in thousandths *)
Dollars(n) == n * 100

SavingOf(cents) == cents * 1000

(* C23: the rate getUserTaxRate returns follows the bracket table for every
   income: 0 up to and including 18,200, 19 up to and including 45,000,
   32.5 up to and including 120,000, 37 up to and including 180,000, 45
   above; income 100000 gives 32.5, and a deduction total of 1000 then
   gives an estimated tax saving of 325 *)
C23_BracketTable ==
    /\ ReturnedFrom("getUserTaxRate")
          => /\ last.result = BracketRate(getUserIncome(last.args[1]))
             /\ getUserIncome(last.args[1]) = 100000 => last.result = 325
    /\ (/\ ReturnedFrom("calculateDashboardStats")
        /\ getUserIncome(last.args[2]) = 100000
        /\ last.result.deductionAmount = Dollars(1000))
          => last.result.taxSavings = SavingOf(Dollars(325))

(* the dashboard of a user with income 100000 and deductions of 1000 *)
C23_Witness ==
    /\ ReturnedFrom("calculateDashboardStats")
    /\ last.args[2].salary = {100000}
    /\ last.result.deductionAmount = Dollars(1000)
    /\ last.result.taxSavings = SavingOf(Dollars(325))

(* the saving is the deductions at the bracket rate of the user *)
AtBracketRate(saving, deductions, user) ==
    saving = deductions * getUserTaxRate(user)

DashboardAndTrendsAtBracketRate ==
    /\ ReturnedFrom("calculateDashboardStats")
          => AtBracketRate(last.result.taxSavings,
                           last.result.deductionAmount, last.args[2])
    /\ ReturnedFrom("calculateMonthlyTrends")
          => \A i \in DOMAIN last.result :
                AtBracketRate(last.result[i].savings,
                              last.result[i].deductions, last.args[2])

(* C24: every tax-saving figure of the aggregation functions for the same
   user and the same transactions uses the bracket rate of the user's
   income: calculateDashboardStats.taxSavings, the savings of
   calculateMonthlyTrends, getStats.potentialSavings and getPotentialSavings
   with its default rate all equal deductions times that rate *)
C24_OneRate ==
    /\ DashboardAndTrendsAtBracketRate
    /\ ReturnedFrom("getStats")
          => AtBracketRate(last.result.potentialSavings,
                           last.result.totalDeductions, last.args[2])
    /\ ReturnedFrom("getPotentialSavings")
          => AtBracketRate(last.result, getTotalDeductions(last.args[1]),
                           last.args[2])

(* ---- dashboard totals ---- *)

(* the transactions of the list with the property *)
Those(transactions, Is(_)) ==
    {i \in DOMAIN transactions : Is(transactions[i])}

RECURSIVE Total(_, _)
Total(numbers, indices) ==
    IF indices = {} THEN 0
    ELSE numbers[MinOf(indices)] + Total(numbers, indices \ {MinOf(indices)})

IsOutflow(t) == t.amount < 0

IsFlagged(t) == t.isBusinessExpense

LacksDeductionAmount(t) ==
    "deductionAmount" \notin DOMAIN t \/ t.deductionAmount = 0

(* the deduction of a flagged transaction: its deductionAmount, and
   abs(amount) where that is zero or missing *)
DeductionOrAmount(t) ==
    IF LacksDeductionAmount(t) THEN Abs(t.amount) ELSE t.deductionAmount

(* the same, abs(amount) standing in for outflows only *)
DeductionOrOutflow(t) ==
    IF ~LacksDeductionAmount(t) THEN t.deductionAmount
    ELSE IF IsOutflow(t) THEN Abs(t.amount) ELSE 0

DashboardCountsAndExpenses ==
    LET transactions == last.args[1]
    IN  /\ last.result.totalTransactions = Len(transactions)
        /\ last.result.totalExpenses
              = Total([i \in DOMAIN transactions |-> Abs(transactions[i].amount)],
                      Those(transactions, IsOutflow))

(* C25: calculateDashboardStats over any transaction list returns
   totalTransactions = the length of the list, totalExpenses = the sum of
   abs(amount) over the transactions with amount < 0, and deductionAmount =
   the sum over the flagged transactions of their deductionAmount, with
   abs(amount) instead for every flagged transaction whose deductionAmount
   is zero or missing *)
C25_DashboardTotals ==
    ReturnedFrom("calculateDashboardStats")
        => /\ DashboardCountsAndExpenses
           /\ last.result.deductionAmount
                 = Total([i \in DOMAIN last.args[1] |->
                             DeductionOrAmount(last.args[1][i])],
                         Those(last.args[1], IsFlagged))

(* C25 as the code has it: abs(amount) stands in only where the flagged
   transaction is an outflow; a flagged inflow without a deductionAmount
   adds nothing *)
C25_DashboardTotalsOfOutflows ==
    ReturnedFrom("calculateDashboardStats")
        => /\ DashboardCountsAndExpenses
           /\ last.result.deductionAmount
                 = Total([i \in DOMAIN last.args[1] |->
                             DeductionOrOutflow(last.args[1][i])],
                         Those(last.args[1], IsFlagged))

(* a dashboard over a flagged outflow with deductionAmount 0, a flagged
   inflow without one and a flagged expense with its own *)
C25_Witness ==
    /\ ReturnedFrom("calculateDashboardStats")
    /\ \E i, j, k \in DOMAIN last.args[1] :
          /\ IsFlagged(last.args[1][i]) /\ IsOutflow(last.args[1][i])
          /\ LacksDeductionAmount(last.args[1][i])
          /\ IsFlagged(last.args[1][j]) /\ ~IsOutflow(last.args[1][j])
          /\ LacksDeductionAmount(last.args[1][j])
          /\ IsFlagged(last.args[1][k]) /\ ~LacksDeductionAmount(last.args[1][k])
    /\ last.result.deductionAmount > 0

(* ---- category breakdown ---- *)

(* a deductible transaction: flagged, with a deductionAmount that is not
   zero, which is what getTotalDeductions counts as well *)
IsDeductible(t) == IsFlagged(t) /\ ~LacksDeductionAmount(t)

CategoryName(t) == IF "category" \in DOMAIN t THEN t.category ELSE "Other"

(* a quotient rounded to one decimal, in tenths *)
RoundedTenths(q) == (q.num * 20 + q.den) \div (2 * q.den)

(* C26: calculateCategoryBreakdown returns one row per category among the
   deductible transactions, each with amount = the sum of their
   deductionAmount and count = their number, percentage = amount / total
   deductions * 100 (0 when the total is 0), the rows sorted by amount
   descending and the row amounts summing to getTotalDeductions of the same
   list; Fuel 50 + 150 and Meals 100 give 66.7% and 33.3% of 300 *)
C26_CategoryBreakdown ==
    ReturnedFrom("calculateCategoryBreakdown") =>
        LET transactions == last.args[1]
            rows == last.result
            deductible == Those(transactions, IsDeductible)
            amounts == [i \in DOMAIN transactions |->
                           IF i \in deductible
                           THEN transactions[i].deductionAmount ELSE 0]
            total == Total(amounts, deductible)
            Of(category) ==
                {i \in deductible : CategoryName(transactions[i]) = category}
        IN  /\ \A i \in deductible : \E k \in DOMAIN rows :
                  rows[k].category = CategoryName(transactions[i])
            /\ \A j, k \in DOMAIN rows :
                  rows[j].category = rows[k].category => j = k
            /\ \A k \in DOMAIN rows :
                  /\ Of(rows[k].category) # {}
                  /\ rows[k].amount = Total(amounts, Of(rows[k].category))
                  /\ rows[k].count = Cardinality(Of(rows[k].category))
                  /\ IF total = 0 THEN rows[k].percentage.num = 0
                     ELSE rows[k].percentage
                             = Quotient(rows[k].amount * 100, total)
            /\ \A j, k \in DOMAIN rows :
                  j < k => rows[j].amount >= rows[k].amount
            /\ Total([k \in DOMAIN rows |-> rows[k].amount], DOMAIN rows)
                  = getTotalDeductions(transactions)
            /\ (/\ total = Dollars(300)
                /\ Total(amounts, Of("Fuel")) = Dollars(200)
                /\ Total(amounts, Of("Meals")) = Dollars(100))
                  => /\ Len(rows) = 2
                     /\ rows[1].category = "Fuel"
                     /\ RoundedTenths(rows[1].percentage) = 667
                     /\ rows[2].category = "Meals"
                     /\ RoundedTenths(rows[2].percentage) = 333

(* the breakdown of Meals 100, Fuel 50 and Fuel 150, in that order *)
C26_Witness ==
    /\ ReturnedFrom("calculateCategoryBreakdown")
    /\ Len(last.args[1]) = 3
    /\ CategoryName(last.args[1][1]) = "Meals"
    /\ Len(last.result) = 2
    /\ last.result[1].category = "Fuel"
    /\ last.result[1].amount = Dollars(200)
    /\ last.result[1].count = 2
    /\ RoundedTenths(last.result[1].percentage) = 667
    /\ last.result[2].amount = Dollars(100)
    /\ RoundedTenths(last.result[2].percentage) = 333

----------------------------------------------------------------------------
(* classifyTransactions as the runtime sees it: the part before the await
   of the classifier, and the part after it.  A run with nothing to classify
   does not await and ends in its first part. *)

(* lines 511-535: the cache is loaded, the hits are pushed to results and
   the others to needsClassification *)
classifyBegin(ls, transactions, t) ==
    LET cache == loadClassificationCache(ls, t)
        hits == {transactions[i].id : i \in
                    {j \in DOMAIN transactions :
                        IsCacheHit(cache, transactions[j])}}
        hitList == SelectSeq2(transactions, hits)
    IN  [hits |-> hits,
         results |-> [i \in DOMAIN hitList |->
                         CacheHit(hitList[i], cache.map[hitList[i].id])],
         needsClassification |->
             SelectSeq2(transactions, Ids(transactions) \ hits),
         ls |-> cache.ls]

(* lines 537-586: the classifier has answered; the results of the awaited
   call are joined to the hits *)
classifyJoin(started, enabledDeductionTypes, answer) ==
    LET needsClassification == started.needsClassification
        enabledCategories == {type \in DOMAIN enabledDeductionTypes :
                                 enabledDeductionTypes[type]}
        resultsMap ==
            SimpleAIClassify(answer, needsClassification, enabledCategories)
        newlyClassified ==
            [i \in DOMAIN needsClassification |->
               IF needsClassification[i].id \in DOMAIN resultsMap
               THEN Classified(needsClassification[i],
                               resultsMap[needsClassification[i].id])
               ELSE Fallback(needsClassification[i])]
    IN  IF Len(needsClassification) > 0
        THEN Push(started.results, newlyClassified)
        ELSE started.results

----------------------------------------------------------------------------
(* Runs of classifyTransactions that overlap, and the age of what the cache
   holds: SpecRuns.  last holds the two runs, which of them wrote the cache
   last, and for every id of the stored cache the time at which its
   decision was made (born). *)

(* the runs a process makes at most *)
MaxRuns == 2

(* the batches a run is given: ids in ascending order *)
RunBatches ==
    {b \in Batches : \A i, j \in DOMAIN b : i < j => b[i] < b[j]}

AllEnabled == [type \in DEDUCTION_CATEGORIES |-> TRUE]

IdleRun ==
    [pc |-> "idle", runs |-> 0, batch |-> <<>>, began |-> 0, ended |-> 0,
     hits |-> {}, results |-> <<>>, needsClassification |-> <<>>,
     born |-> EmptyMap, ret |-> <<>>, overlapped |-> FALSE]

RunClassifiers ==
    {[throws |-> FALSE, opt |-> [i \in TxIds |-> "deductible"]],
     [throws |-> FALSE,
      opt |-> [i \in TxIds |-> IF i = 1 THEN "none" ELSE "deductible"]],
     [throws |-> TRUE, opt |-> [i \in TxIds |-> "deductible"]]}

InitRuns ==
    /\ EmptyDatabase
    /\ localStorage = [k \in Keys |-> NoItem]
    /\ now = 0
    /\ classifier \in RunClassifiers
    /\ last = [op |-> "classifyTransactions",
               run |-> [p \in Procs |-> IdleRun],
               writer |-> 0,
               born |-> EmptyMap]

Other(p) == CHOOSE q \in Procs : q # p

(* the results are saved and returned (lines 588-609) *)
Ended(p, run, ret, born) ==
    /\ localStorage' = saveClassificationCache(run.ls, ret, now)
    /\ last' = [last EXCEPT
                   !.run[p] = [pc |-> "returned", runs |-> run.runs,
                               batch |-> run.batch,
                               began |-> run.began, ended |-> now,
                               hits |-> run.hits, results |-> run.results,
                               needsClassification |-> run.needsClassification,
                               born |-> run.born, ret |-> ret,
                               overlapped |-> run.overlapped],
                   !.writer = p,
                   !.born = born]

(* a run starts: it reads the cache and, with something to classify, calls
   the classifier and waits; with nothing to classify it runs to its end *)
Begin(p, b) ==
    /\ last.run[p].pc # "awaiting"
    /\ last.run[p].runs < MaxRuns
    /\ LET started == classifyBegin(localStorage, TxList(b), now)
           overlaps == last.run[Other(p)].pc = "awaiting"
           run == [runs |-> last.run[p].runs + 1,
                   batch |-> b, began |-> now, hits |-> started.hits,
                   results |-> started.results,
                   needsClassification |-> started.needsClassification,
                   born |-> [id \in started.hits |-> last.born[id]],
                   overlapped |-> overlaps, ls |-> started.ls]
       IN  IF Len(started.needsClassification) > 0
           THEN /\ localStorage' = started.ls
                /\ last' = [last EXCEPT
                      !.run[p] = [pc |-> "awaiting",
                                  runs |-> last.run[p].runs + 1, batch |-> b,
                                  began |-> now, ended |-> now,
                                  hits |-> run.hits, results |-> run.results,
                                  needsClassification |->
                                      run.needsClassification,
                                  born |-> run.born, ret |-> <<>>,
                                  overlapped |-> overlaps],
                      !.run[Other(p)].overlapped = @ \/ overlaps,
                      !.born = IF started.ls = localStorage THEN @
                               ELSE EmptyMap]
           ELSE Ended(p, run, classifyJoin(started, AllEnabled, classifier),
                      run.born)
    /\ UNCHANGED <<now, classifier, serverVars>>

(* the classifier answers: the run goes on to its end *)
Resume(p) ==
    /\ last.run[p].pc = "awaiting"
    /\ ~classifier.throws
    /\ LET run == [last.run[p] EXCEPT !.pc = "awaiting"]
           ret == classifyJoin(run, AllEnabled, classifier)
       IN  Ended(p, [runs |-> run.runs,
                     batch |-> run.batch, began |-> run.began,
                     hits |-> run.hits, results |-> run.results,
                     needsClassification |-> run.needsClassification,
                     born |-> run.born, overlapped |-> run.overlapped,
                     ls |-> localStorage],
                 ret,
                 [id \in Ids(ret) |->
                     IF id \in run.hits THEN run.born[id] ELSE now])
    /\ UNCHANGED <<now, classifier, serverVars>>

(* the awaited call rejects: the run ends there, by its exception *)
Reject(p) ==
    /\ last.run[p].pc = "awaiting"
    /\ classifier.throws
    /\ last' = [last EXCEPT !.run[p].pc = "threw", !.run[p].ended = now]
    /\ UNCHANGED <<localStorage, now, classifier, serverVars>>

NextRuns ==
    \/ \E p \in Procs, b \in RunBatches : Begin(p, b)
    \/ \E p \in Procs : Resume(p)
    \/ \E p \in Procs : Reject(p)
    \/ \E dt \in TickSteps : Tick(dt)

SpecRuns == InitRuns /\ [][NextRuns]_vars

----------------------------------------------------------------------------
(* The upload page, src/app/upload-statements/page.tsx.  Its state is the
   selected bank, the files of this visit, their transactions and the file
   history; pdf_transactions and pdf_upload_history are in localStorage. *)

BankNames == [anz |-> "ANZ", westpac |-> "Westpac"]

PageBanks == DOMAIN BankNames

NoBank == "none"

descriptionLength == 110

(* trimDescription(description, 110) *)
trimDescription(description) ==
    IF description = "" THEN "Unknown transaction"
    ELSE IF Len(trim(description)) <= descriptionLength THEN trim(description)
    ELSE SubSeq(trim(description), 1, descriptionLength - 3) \o "..."

(* formatTransactionAmount *)
formatTransactionAmount(amount, type) ==
    IF type = "debit" /\ amount > 0 THEN -Abs(amount)
    ELSE IF type = "credit" /\ amount < 0 THEN Abs(amount)
    ELSE amount

(* t.type || "debit" *)
typeOrDebit(t) == IF "type" \in DOMAIN t THEN t.type ELSE "debit"

(* lines 422-430: a transaction of the response as the page keeps it *)
extractedTransaction(t, fileId, index) ==
    [id |-> <<fileId, index>>,
     date |-> t.date,
     description |-> trimDescription(t.description),
     amount |-> formatTransactionAmount(t.amount, typeOrDebit(t)),
     type |-> typeOrDebit(t),
     typed |-> "type" \in DOMAIN t]

(* the lightweight entry of a file in the history (lines 221-240) *)
historyEntry(file) ==
    [id |-> file.id, bankName |-> file.bankName, bankId |-> file.bankId,
     fileName |-> file.fileName]

(* the useEffect on files (lines 216-293): the completed files that the
   history does not hold are appended to it *)
historyWith(fileHistory, files) ==
    LET Completed(f) == f.status = "completed"
        completedFiles == SelectSeq(files, Completed)
        New(f) == \A k \in DOMAIN fileHistory : fileHistory[k].id # f.id
        newFiles == SelectSeq(completedFiles, New)
    IN  fileHistory \o [k \in DOMAIN newFiles |-> historyEntry(newFiles[k])]

(* JSON.parse(localStorage.getItem("pdf_transactions") || "[]") *)
storedTransactions(ls) ==
    IF ls["pdf_transactions"] = NoItem THEN <<>>
    ELSE TextOf(ls["pdf_transactions"])

(* lines 544-571 of handleContinue: the element stored for transaction t,
   at position index of allTransactions *)
storedTransaction(t, index, files, selectedBank, time) ==
    LET Holds(f) == \E k \in DOMAIN f.transactions : f.transactions[k].id = t.id
        sources == SelectSeq(files, Holds)
        formattedAmount == formatTransactionAmount(t.amount, t.type)
    IN  [id |-> <<"pdf", selectedBank, time, index>>,
         description |-> trimDescription(t.description),
         amount |-> formattedAmount,
         date |-> t.date,
         account |-> BankNames[selectedBank] \o " Statement",
         accountId |-> "pdf-" \o selectedBank,
         type |-> IF t.typed THEN t.type
                  ELSE IF formattedAmount < 0 THEN "debit" ELSE "credit",
         source |-> "pdf-upload",
         bankType |-> selectedBank,
         pdfFileId |-> IF sources = <<>> THEN 0 ELSE sources[1].id,
         pdfFileName |-> IF sources = <<>> THEN Undef
                         ELSE sources[1].fileName]

(* handleContinue (lines 533-593): what pdf_transactions holds after it *)
handleContinue(ls, allTransactions, files, selectedBank, time) ==
    LET existingTransactions == storedTransactions(ls)
        newTransactions ==
            [i \in DOMAIN allTransactions |->
                storedTransaction(allTransactions[i], i - 1, files,
                                  selectedBank, time)]
        IsNew(t) == \A k \in DOMAIN existingTransactions :
                        existingTransactions[k].id # t.id
    IN  existingTransactions \o SelectSeq(newTransactions, IsNew)

(* the filter of removeFileFromHistory (lines 611-629) *)
removeFromStored(existingTransactions, fileToRemove) ==
    LET Kept(t) ==
            ~(\/ t.pdfFileId = fileToRemove.id
              \/ t.pdfFileName = fileToRemove.fileName
              \/ includes(t.account, fileToRemove.bankName)
              \/ includes(t.accountId, fileToRemove.bankId)
              \/ t.bankType = fileToRemove.bankId
              \/ (t.source = "pdf-upload" /\ t.bankType = fileToRemove.bankId))
    IN  SelectSeq(existingTransactions, Kept)

----------------------------------------------------------------------------
(* Visits of the upload page: SpecPage.  last holds the state of the page
   and the handler that ran last. *)

(* the files uploaded at most *)
MaxFiles == 2

PageKeys == {"pdf_transactions", "pdf_upload_history"}

AnzDebitLine ==
    AnzLine("01/07/2024", "01/07/2024", "1234", "WOOLWORTHS", "45.67", "",
            "123.00")

AnzCreditLine ==
    AnzLine("02/07/2024", "02/07/2024", "1234", "REFUND", "20.00", " CR",
            "143.00")

Upload(fileName, lines) == [fileName |-> fileName, lines |-> lines]

(* the files uploaded: two ANZ statements, a Westpac statement under the
   name of one of them, and a file without transactions *)
Uploads ==
    {Upload("july.pdf", <<AnzCreditLine, AnzDebitLine>>),
     Upload("august.pdf", <<AnzDebitLine>>),
     Upload("july.pdf", <<Line("02/07/24 SALARY 2,000.00 2,100.00"),
                          Line("03/07/24 TAXI 7.25 2,092.75")>>),
     Upload("empty.pdf", <<Line("Page 1 of 2")>>)}

(* what the route answers to each upload under each bank *)
RouteAnswers ==
    [bank \in PageBanks |->
        [upload \in Uploads |->
            processPdfPOST(PdfFile(textOfLines(upload.lines)), bank)]]

InitPage ==
    /\ EmptyDatabase
    /\ localStorage = [k \in Keys \cup PageKeys |-> NoItem]
    /\ now = 0
    /\ classifier = [throws |-> FALSE, opt |-> [i \in TxIds |-> "deductible"]]
    /\ last = [op |-> "mount", selectedBank |-> NoBank, files |-> <<>>,
               allTransactions |-> <<>>, fileHistory |-> <<>>,
               uploaded |-> 0, fileId |-> 0, before |-> <<>>]

Page(op, selectedBank, files, allTransactions, fileHistory, fileId) ==
    last' = [op |-> op, selectedBank |-> selectedBank, files |-> files,
             allTransactions |-> allTransactions,
             fileHistory |-> fileHistory,
             uploaded |-> IF op = "processUploadedFile"
                          THEN last.uploaded + 1 ELSE last.uploaded,
             fileId |-> fileId,
             before |-> IF op = "removeFileFromHistory"
                        THEN storedTransactions(localStorage) ELSE <<>>]

HandleBankSelection(bank) ==
    /\ last.selectedBank # bank
    /\ Page("handleBankSelection", bank, last.files, last.allTransactions,
            last.fileHistory, 0)
    /\ UNCHANGED <<localStorage, now, classifier, serverVars>>

(* lines 422-430 for every transaction of the response *)
extractedTransactions(response, fileId) ==
    [i \in DOMAIN response.body.transactions |->
        extractedTransaction(response.body.transactions[i], fileId, i - 1)]

(* the entry of files once the response is in: completed, or in error
   when no transaction was found (lines 434-471) *)
processedFile(fileId, bankId, fileName, lines, extracted) ==
    [id |-> fileId, bankId |-> bankId, bankName |-> BankNames[bankId],
     fileName |-> fileName, lines |-> lines,
     status |-> IF extracted = <<>> THEN "error" ELSE "completed",
     transactions |-> extracted]

(* the page once the file is in files, and the effect on the history that
   follows the change of files *)
FileProcessed(file, fileHistory) ==
    /\ Page("processUploadedFile", last.selectedBank,
            Append(last.files, file),
            last.allTransactions \o file.transactions, fileHistory, 0)
    /\ localStorage' =
          IF fileHistory = last.fileHistory THEN localStorage
          ELSE [localStorage EXCEPT
                   !["pdf_upload_history"] = Item(fileHistory)]

FileIn(file) ==
    FileProcessed(file, historyWith(last.fileHistory, Append(last.files, file)))

(* processUploadedFile (lines 350-496) with the answer of the route *)
ProcessUploadedFile(fileName, lines) ==
    /\ last.selectedBank # NoBank
    /\ last.uploaded < MaxFiles
    /\ FileIn(processedFile(
                 last.uploaded + 1, last.selectedBank, fileName, lines,
                 extractedTransactions(
                     RouteAnswers[last.selectedBank][Upload(fileName, lines)],
                     last.uploaded + 1)))
    /\ UNCHANGED <<now, classifier, serverVars>>

(* removeFile (lines 499-506) *)
RemoveFile(k) ==
    /\ k \in DOMAIN last.files
    /\ LET file == last.files[k]
           Others(f) == f.id # file.id
           NotOfFile(t) == \A i \in DOMAIN file.transactions :
                              file.transactions[i].id # t.id
       IN  Page("removeFile", last.selectedBank,
                SelectSeq(last.files, Others),
                SelectSeq(last.allTransactions, NotOfFile),
                last.fileHistory, 0)
    /\ UNCHANGED <<localStorage, now, classifier, serverVars>>

(* handleContinue, and the navigation to the transactions that ends the
   visit: the next visit starts with the stored history and nothing else *)
HandleContinue ==
    /\ \E k \in DOMAIN last.files : last.files[k].status = "completed"
    /\ last.selectedBank # NoBank
    /\ localStorage' =
          [localStorage EXCEPT !["pdf_transactions"] =
              Item(handleContinue(localStorage, last.allTransactions,
                                  last.files, last.selectedBank, now))]
    /\ Page("handleContinue", NoBank, <<>>, <<>>, last.fileHistory, 0)
    /\ now' = now + 1
    /\ UNCHANGED <<classifier, serverVars>>

(* removeFileFromHistory (lines 603-645) *)
RemoveFileFromHistory(k) ==
    /\ k \in DOMAIN last.fileHistory
    /\ LET fileToRemove == last.fileHistory[k]
           Others(f) == f.id # fileToRemove.id
           updatedHistory == SelectSeq(last.fileHistory, Others)
       IN  /\ localStorage' =
                 [localStorage EXCEPT
                     !["pdf_transactions"] =
                         Item(removeFromStored(storedTransactions(localStorage),
                                               fileToRemove)),
                     !["pdf_upload_history"] = Item(updatedHistory)]
           /\ Page("removeFileFromHistory", last.selectedBank, last.files,
                   last.allTransactions, updatedHistory, fileToRemove.id)
    /\ UNCHANGED <<now, classifier, serverVars>>

(* clearHistory (lines 508-531) *)
ClearHistory ==
    /\ last.fileHistory # <<>>
    /\ LET NotUploaded(t) == t.source # "pdf-upload"
       IN  localStorage' =
              [localStorage EXCEPT
                  !["pdf_transactions"] =
                      Item(SelectSeq(storedTransactions(localStorage),
                                     NotUploaded)),
                  !["pdf_upload_history"] = NoItem]
    /\ Page("clearHistory", last.selectedBank, last.files,
            last.allTransactions, <<>>, 0)
    /\ UNCHANGED <<now, classifier, serverVars>>

NextPage ==
    \/ \E bank \in PageBanks : HandleBankSelection(bank)
    \/ \E upload \in Uploads :
          ProcessUploadedFile(upload.fileName, upload.lines)
    \/ \E k \in 1..MaxFiles : RemoveFile(k)
    \/ HandleContinue
    \/ \E k \in 1..MaxFiles : RemoveFileFromHistory(k)
    \/ ClearHistory

SpecPage == InitPage /\ [][NextPage]_vars

----------------------------------------------------------------------------
(* Claims about overlapping runs and the age of cached decisions, under
   SpecRuns *)

RunReturned(p) == last.run[p].pc = "returned"

(* the item a run leaves in classification_cache when it saves its
   results *)
SnapshotOf(run) ==
    Item([timestamp |-> run.ended,
          transactions |-> [i \in DOMAIN run.ret |-> CacheEntryText(run.ret[i])]])

(* the run returned one classified result for every transaction of its
   batch *)
ReturnedItsBatch(run) ==
    /\ Len(run.ret) = Len(run.batch)
    /\ Ids(run.ret) = Range(run.batch)
    /\ \A i \in DOMAIN run.ret :
          /\ run.ret[i].autoClassified
          /\ run.ret[i].classificationSource # Undef

(* C27: last write wins on the cache: for any interleaving of two
   concurrent classifyTransactions runs (each reads the cache, awaits the
   classifier, then writes the cache), each run returns a classified result
   for every transaction of its own batch, and the stored cache afterwards
   is exactly the complete snapshot written by the run that wrote last,
   never a mixture of the two *)
C27_LastWriteWins ==
    /\ \A p \in Procs : RunReturned(p) => ReturnedItsBatch(last.run[p])
    /\ (\A p \in Procs : RunReturned(p))
          => localStorage["classification_cache"]
                = SnapshotOf(last.run[last.writer])

(* two runs over different transactions, each begun before the other had
   written, have both returned; the cache holds the later one's alone *)
C27_Witness ==
    /\ \A p \in Procs :
          /\ RunReturned(p)
          /\ last.run[p].overlapped
          /\ last.run[p].needsClassification # <<>>
    /\ Range(last.run[1].batch) \cap Range(last.run[2].batch) = {}
    /\ CachedIds(localStorage) = Range(last.run[last.writer].batch)

(* C28: across any sequence of classifyTransactions calls, a decision
   returned as a cache hit was made by the classifier no more than 24 hours
   before the call that returns it: saving the cache again after a batch
   does not extend the life of decisions that were themselves cache hits *)
C28_HitsNoOlderThanMaxAge ==
    \A p \in Procs :
        RunReturned(p)
            => \A id \in last.run[p].hits :
                  last.run[p].began - last.run[p].born[id] <= maxAge

----------------------------------------------------------------------------
(* Claims about the upload page, under SpecPage *)

(* the stored transactions that did not come from the file *)
NotFromFile(transactions, fileId) ==
    LET OfOtherFile(t) == t.pdfFileId # fileId
    IN  SelectSeq(transactions, OfOtherFile)

(* C29: removing one uploaded PDF from the history removes from the stored
   pdf_transactions exactly the transactions that came from that file and
   leaves every other stored transaction unchanged, those of other files
   uploaded for the same bank included *)
C29_RemovesOnlyThatFile ==
    last.op = "removeFileFromHistory"
        => storedTransactions(localStorage)
              = NotFromFile(last.before, last.fileId)

(* what does hold: nothing of the removed file stays, and what stays is
   unchanged and in its order *)
RemovesAtLeastThatFile ==
    last.op = "removeFileFromHistory"
        => /\ NotFromFile(storedTransactions(localStorage), last.fileId)
                 = storedTransactions(localStorage)
           /\ \E kept \in SUBSET DOMAIN last.before :
                 LET Kept(t) == \E k \in kept : last.before[k] = t
                 IN  storedTransactions(localStorage)
                        = SelectSeq(last.before, Kept)

(* the files of the page that the ANZ parser read from lines of the ANZ
   form, one transaction a line *)
AnzFiles ==
    {k \in DOMAIN last.files :
        /\ last.files[k].bankId = "anz"
        /\ last.files[k].status = "completed"
        /\ \A i \in DOMAIN last.files[k].lines :
              last.files[k].lines[i].form = "anz"
        /\ Len(last.files[k].transactions) = Len(last.files[k].lines)}

(* the amount handleContinue stores for transaction i of the file *)
StoredAmount(file, i) ==
    storedTransaction(file.transactions[i], i - 1, last.files, file.bankId,
                      now).amount

(* C30: through the upload flow (the ANZ parser, then
   formatTransactionAmount with the type defaulted to debit when the parser
   gives none), a statement line with the CR marker and a line without it
   end up with amounts of opposite sign, so that a credit is never stored
   as an outflow, a negative amount *)
C30_CreditNeverAnOutflow ==
    \A k \in AnzFiles :
        LET file == last.files[k]
        IN  /\ \A i, j \in DOMAIN file.lines :
                  (file.lines[i].credit = " CR" /\ file.lines[j].credit = "")
                      => \/ file.transactions[i].amount > 0
                            /\ file.transactions[j].amount < 0
                         \/ file.transactions[i].amount < 0
                            /\ file.transactions[j].amount > 0
            /\ \A i \in DOMAIN file.lines :
                  file.lines[i].credit = " CR"
                      => /\ file.transactions[i].amount >= 0
                         /\ StoredAmount(file, i) >= 0

====
